---- MODULE Spec2Model ----
(***************************************************************************)
(* Model of the tavo-rules validation command (scripts/validate-rules.py). *)
(*                                                                         *)
(* A rule file is what open() + yaml.safe_load produce for it; a rule      *)
(* document is a Python dict, modelled as a function whose DOMAIN is the   *)
(* set of keys the document declares.  Python strings are TLA+ strings    *)
(* (Len, \o and SubSeq work on them), Python lists are sequences.          *)
(***************************************************************************)
EXTENDS Integers, Sequences, FiniteSets, TLC

(***************************************************************************)
(* Bounds                                                                  *)
(***************************************************************************)
\* largest number of *.yaml files rglob discovers under bundles/
MaxRuleFiles == 2
\* largest number of manifest.json files rglob discovers under bundles/
MaxManifestFiles == 1

(***************************************************************************)
(* Python built-ins                                                        *)
(***************************************************************************)
\* str.startswith
StartsWith(s, p) == Len(s) >= Len(p) /\ SubSeq(s, 1, Len(p)) = p

\* the `in` operator on two strings
Contains(s, sub) ==
    \E i \in 1..(Len(s) - Len(sub) + 1) : SubSeq(s, i, i + Len(sub) - 1) = sub

\* dict.get(key, default)
Get(d, k, default) == IF k \in DOMAIN d THEN d[k] ELSE default

\* the empty dict
EmptyDict == <<>>

\* `not x` for a list or a dict: true of the empty one
IsEmpty(x) == DOMAIN x = {}

\* [f(x) for x in xs if keep(x)], order preserved
Collect(xs, keep(_), f(_)) ==
    LET kept == SelectSeq(xs, keep)
    IN  [i \in 1..Len(kept) |-> f(kept[i])]

\* number of elements of a list that satisfy a test
Count(xs, test(_)) == Cardinality({i \in 1..Len(xs) : test(xs[i])})

Digits == {"0", "1", "2", "3", "4", "5", "6", "7", "8", "9"}

(***************************************************************************)
(* Business rules: RuleValidator._validate_standards                       *)
(***************************************************************************)
CweBad(cwe) == ~StartsWith(cwe, "CWE-")
CweMsg(cwe) == "Invalid CWE format: " \o cwe \o " (should be CWE-XXX)"

CapecBad(capec) == ~StartsWith(capec, "CAPEC-")
CapecMsg(capec) == "Invalid CAPEC format: " \o capec \o " (should be CAPEC-XXX)"

OwaspBad(owasp) == ~StartsWith(owasp, "LLM") \/ Len(owasp) # 4
OwaspMsg(owasp) == "Invalid OWASP LLM format: " \o owasp \o " (should be LLMXX)"

validate_standards(standards) ==
    Collect(Get(standards, "cwe", <<>>), CweBad, CweMsg)
    \o Collect(Get(standards, "capec", <<>>), CapecBad, CapecMsg)
    \o Collect(Get(standards, "owasp_llm", <<>>), OwaspBad, OwaspMsg)

(***************************************************************************)
(* Business rules: RuleValidator._validate_rule_content                    *)
(***************************************************************************)
IdPrefix == "tavoai-"

\* rule types for which compatible_models and ai_analysis are checked
AiRuleTypes == {"hybrid", "ai-only"}

\* rule types for which heuristics are checked
\* variant: the heuristics check also covers ai-only rules
HeuristicRuleTypes_WithAiOnly == {"opengrep", "opa", "hybrid", "ai-only"}

HeuristicRuleTypes == {"opengrep", "opa", "hybrid"}

ModelBad(model) == ~Contains(model, "/")
ModelMsg(model) == "Invalid model format: " \o model \o " (expected 'provider/model')"

\* variant: the prefix test without its `not`
RuleIdErrors_Inverted(rule_data) ==
    LET rule_id == Get(rule_data, "id", "")
    IN  IF StartsWith(rule_id, IdPrefix)
        THEN <<"Rule ID must start with 'tavoai-': " \o rule_id>>
        ELSE <<>>

RuleIdErrors(rule_data) ==
    LET rule_id == Get(rule_data, "id", "")
    IN  IF ~StartsWith(rule_id, IdPrefix)
        THEN <<"Rule ID must start with 'tavoai-': " \o rule_id>>
        ELSE <<>>

CompatibleModelsErrors(rule_data) ==
    LET rule_type == Get(rule_data, "rule_type", "")
        compatible_models == Get(rule_data, "compatible_models", <<>>)
    IN  IF rule_type \in AiRuleTypes
        THEN IF IsEmpty(compatible_models)
             THEN <<"AI rules must specify compatible_models">>
             ELSE Collect(compatible_models, ModelBad, ModelMsg)
        ELSE <<>>

\* variant: heuristics demanded of every rule type but ai-only
HeuristicsErrors_UnlessAiOnly(rule_data) ==
    LET rule_type == Get(rule_data, "rule_type", "")
        heuristics == Get(rule_data, "heuristics", <<>>)
    IN  IF rule_type # "ai-only" /\ IsEmpty(heuristics)
        THEN <<"Non-AI-only rules must have heuristics">>
        ELSE <<>>

HeuristicsErrors(rule_data) ==
    LET rule_type == Get(rule_data, "rule_type", "")
        heuristics == Get(rule_data, "heuristics", <<>>)
    IN  IF rule_type \in HeuristicRuleTypes /\ IsEmpty(heuristics)
        THEN <<"Non-AI-only rules must have heuristics">>
        ELSE <<>>

AiAnalysisErrors(rule_data) ==
    LET rule_type == Get(rule_data, "rule_type", "")
        ai_analysis == Get(rule_data, "ai_analysis", EmptyDict)
    IN  IF rule_type \in AiRuleTypes /\ IsEmpty(ai_analysis)
        THEN <<"AI rules must have ai_analysis section">>
        ELSE <<>>

StandardsErrors(rule_data) ==
    LET standards == Get(rule_data, "standards", EmptyDict)
    IN  IF ~IsEmpty(standards) THEN validate_standards(standards) ELSE <<>>

\* variant: returns at the first error
validate_rule_content_FirstErrorOnly(rule_data) ==
    LET all == RuleIdErrors(rule_data)
               \o CompatibleModelsErrors(rule_data)
               \o HeuristicsErrors(rule_data)
               \o AiAnalysisErrors(rule_data)
               \o StandardsErrors(rule_data)
    IN  IF all = <<>> THEN <<>> ELSE <<Head(all)>>

validate_rule_content(rule_data) ==
    RuleIdErrors(rule_data)
    \o CompatibleModelsErrors(rule_data)
    \o HeuristicsErrors(rule_data)
    \o AiAnalysisErrors(rule_data)
    \o StandardsErrors(rule_data)

(***************************************************************************)
(* Rule files                                                              *)
(*                                                                         *)
(* kind "unreadable": open() raises (the path does not exist);             *)
(* kind "yaml_error": yaml.safe_load raises YAMLError;                     *)
(* kind "empty":      yaml.safe_load returns None;                         *)
(* kind "sequence":   yaml.safe_load returns a list;                       *)
(* kind "mapping":    yaml.safe_load returns the dict in field doc.        *)
(***************************************************************************)
Opt(k, values) == {EmptyDict} \cup {k :> v : v \in values}

IdValues == {"tavoai-test-001", "test-rule-001", "owasp-llm-01"}
RuleTypeValues == {"hybrid", "ai-only", "opengrep", "opa", "heuristic-only"}
CompatibleModelsValues == {<<>>, <<"openai/gpt-4">>, <<"gpt-4", "claude">>}
HeuristicsValues == {<<>>, <<[type |-> "regex", pattern |-> "eval\\("]>>}
AiAnalysisValues == {EmptyDict, [prompt_template |-> "Analyze {code}"]}
CweValues == {<<"CWE-77">>, <<"CWE-77", "89">>}
CapecValues == {<<"capec-242">>}
OwaspValues == {<<"LLM01">>, <<"LLM1">>, <<"A01">>, <<"LLM01", "LLM012">>,
                <<"llm01", "LLMAB">>, <<"LLM", "LLM">>}

StandardsValues ==
    {a @@ b @@ c : a \in Opt("cwe", CweValues), b \in Opt("capec", CapecValues),
                   c \in Opt("owasp_llm", OwaspValues)}

\* one standards mapping that breaks every format rule
BadStandards ==
    [cwe |-> <<"CWE-77", "89">>, capec |-> <<"capec-242">>, owasp_llm |-> <<"A01">>]

\* the documents of the unit tests (test_valid_rule_validation, with and
\* without the namespace prefix) and the AI rule shapes
BaseDocs ==
    {[id |-> i, name |-> "Test Rule", category |-> "security"] @@ t
        : i \in IdValues, t \in Opt("rule_type", {"hybrid", "ai-only"})}

\* every combination of the cross-field business rules
FieldDocs ==
    {i @@ [name |-> "Test Rule"] @@ c @@ t @@ m @@ h @@ a @@ s :
        i \in Opt("id", IdValues),
        c \in Opt("category", {"security"}),
        t \in Opt("rule_type", RuleTypeValues),
        m \in Opt("compatible_models", CompatibleModelsValues),
        h \in Opt("heuristics", HeuristicsValues),
        a \in Opt("ai_analysis", AiAnalysisValues),
        s \in Opt("standards", {EmptyDict, BadStandards})}

\* every combination of standards entries, on the base documents
StandardsDocs == {d @@ ("standards" :> s) : d \in BaseDocs, s \in StandardsValues}

RuleDocs == FieldDocs \cup StandardsDocs

UnparsedFiles ==
    {[kind |-> k, doc |-> EmptyDict] : k \in {"unreadable", "yaml_error", "empty", "sequence"}}

RuleFiles == UnparsedFiles \cup {[kind |-> "mapping", doc |-> d] : d \in RuleDocs}

\* the rule files a repository holds under bundles/: every kind of file
\* that does not parse, the documents of the unit tests and the AI rule
\* shapes with nothing but the required fields
BundleRuleFiles ==
    UnparsedFiles
    \cup {[kind |-> "mapping", doc |-> d] : d \in BaseDocs}
    \cup {[kind |-> "mapping", doc |-> [version |-> "1.0", name |-> "Test Rule"]]}

(***************************************************************************)
(* jsonschema.validate against the rule schema                             *)
(***************************************************************************)
\* the rule schema: an object with required string fields.  The documents
\* above give id, name and category string values only, so the "type":
\* "string" constraints of the properties hold of every mapping and the
\* schema check comes down to the object type and the required keys.
rule_schema ==
    [type |-> "object", required |-> <<"id", "name", "category">>]

NoError == ""

\* the message of the ValidationError jsonschema.validate raises for the
\* parsed content of a file, NoError when it raises none
SchemaError(file, schema) ==
    IF file.kind = "empty" THEN "None is not of type '" \o schema.type \o "'"
    ELSE IF file.kind = "sequence" THEN "['rule'] is not of type '" \o schema.type \o "'"
    ELSE LET missing == SelectSeq(schema.required, LAMBDA k : k \notin DOMAIN file.doc)
         IN  IF missing # <<>>
             THEN "'" \o Head(missing) \o "' is a required property"
             ELSE NoError

(***************************************************************************)
(* RuleValidator.validate_rule_file                                        *)
(***************************************************************************)
NoException == [class |-> "none", text |-> ""]

\* variant: the business rules run on a parsed mapping before the schema
\* check, so their errors are already in the list when it raises
RuleTryBody_ContentBeforeSchema(file) ==
    IF file.kind = "unreadable"
    THEN [raised |-> [class |-> "FileNotFoundError",
                      text |-> "[Errno 2] No such file or directory"],
          errors |-> <<>>]
    ELSE IF file.kind = "yaml_error"
    THEN [raised |-> [class |-> "YAMLError",
                      text |-> "while parsing a flow sequence"],
          errors |-> <<>>]
    ELSE IF SchemaError(file, rule_schema) # NoError
    THEN [raised |-> [class |-> "ValidationError",
                      text |-> SchemaError(file, rule_schema)],
          errors |-> IF file.kind = "mapping"
                     THEN validate_rule_content(file.doc) ELSE <<>>]
    ELSE [raised |-> NoException, errors |-> validate_rule_content(file.doc)]

\* the body of the try block: open, yaml.safe_load, jsonschema.validate,
\* then the business rules; errors is what was added before any raise
RuleTryBody(file) ==
    IF file.kind = "unreadable"
    THEN [raised |-> [class |-> "FileNotFoundError",
                      text |-> "[Errno 2] No such file or directory"],
          errors |-> <<>>]
    ELSE IF file.kind = "yaml_error"
    THEN [raised |-> [class |-> "YAMLError",
                      text |-> "while parsing a flow sequence"],
          errors |-> <<>>]
    ELSE IF SchemaError(file, rule_schema) # NoError
    THEN [raised |-> [class |-> "ValidationError",
                      text |-> SchemaError(file, rule_schema)],
          errors |-> <<>>]
    ELSE [raised |-> NoException, errors |-> validate_rule_content(file.doc)]

\* variant: no `except Exception` clause
RuleHandlers_NoCatchAll ==
    << [catches |-> {"YAMLError"}, prefix |-> "YAML parsing error: "],
       [catches |-> {"ValidationError"}, prefix |-> "Schema validation error: "] >>

\* the except clauses in order, each with the prefix of the error it appends
RuleHandlers ==
    << [catches |-> {"YAMLError"}, prefix |-> "YAML parsing error: "],
       [catches |-> {"ValidationError"}, prefix |-> "Schema validation error: "],
       [catches |-> {"YAMLError", "ValidationError", "FileNotFoundError"},
        prefix |-> "Unexpected error: "] >>

\* try/except: the first clause that catches the exception appends its error;
\* an exception no clause catches leaves the function
TryExcept(body, handlers) ==
    IF body.raised = NoException
    THEN [escaped |-> FALSE, is_valid |-> Len(body.errors) = 0, errors |-> body.errors]
    ELSE LET matching == SelectSeq(handlers, LAMBDA h : body.raised.class \in h.catches)
         IN  IF matching = <<>>
             THEN [escaped |-> TRUE, is_valid |-> FALSE, errors |-> <<>>]
             ELSE LET errors == Append(body.errors, Head(matching).prefix \o body.raised.text)
                  IN  [escaped |-> FALSE, is_valid |-> Len(errors) = 0, errors |-> errors]

validate_rule_file(file) == TryExcept(RuleTryBody(file), RuleHandlers)

(***************************************************************************)
(* Manifest files and RuleValidator.validate_manifest_file                 *)
(*                                                                         *)
(* kind "json_error": json.load raises JSONDecodeError;                    *)
(* kind "sequence":   json.load returns a list;                            *)
(* kind "mapping":    json.load returns the dict in field doc.             *)
(* on_disk is the set of paths that exist under the manifest's directory.  *)
(***************************************************************************)
BundleDir == "bundles/owasp-llm"

ArtifactPaths == {"rules/a.yaml", "rules/b.yaml"}

ManifestDocs ==
    {i @@ a : i \in Opt("id", {"tavoai-owasp-llm", "owasp-llm"}),
              a \in Opt("artifacts", {<<>>, <<"rules/a.yaml">>,
                                      <<"rules/a.yaml", "rules/b.yaml">>})}

ManifestFiles ==
    {[kind |-> k, doc |-> EmptyDict, on_disk |-> {}] : k \in {"json_error", "sequence"}}
    \cup {[kind |-> "mapping", doc |-> d, on_disk |-> e]
            : d \in ManifestDocs, e \in SUBSET ArtifactPaths}

\* the manifest schema: any object
manifest_schema == [type |-> "object", required |-> <<>>]

ArtifactMsg(artifact) == "Artifact file not found: " \o BundleDir \o "/" \o artifact

validate_manifest_content(manifest_data, on_disk) ==
    LET bundle_id == Get(manifest_data, "id", "")
        artifacts == Get(manifest_data, "artifacts", <<>>)
    IN  (IF ~StartsWith(bundle_id, IdPrefix)
         THEN <<"Bundle ID must start with 'tavoai-': " \o bundle_id>>
         ELSE <<>>)
        \o Collect(artifacts, LAMBDA artifact : artifact \notin on_disk, ArtifactMsg)

ManifestTryBody(file) ==
    IF file.kind = "json_error"
    THEN [raised |-> [class |-> "JSONDecodeError",
                      text |-> "Expecting value: line 1 column 1 (char 0)"],
          errors |-> <<>>]
    ELSE IF SchemaError(file, manifest_schema) # NoError
    THEN [raised |-> [class |-> "ValidationError",
                      text |-> SchemaError(file, manifest_schema)],
          errors |-> <<>>]
    ELSE [raised |-> NoException,
          errors |-> validate_manifest_content(file.doc, file.on_disk)]

ManifestHandlers ==
    << [catches |-> {"JSONDecodeError"}, prefix |-> "JSON parsing error: "],
       [catches |-> {"ValidationError"}, prefix |-> "Schema validation error: "],
       [catches |-> {"JSONDecodeError", "ValidationError", "FileNotFoundError"},
        prefix |-> "Unexpected error: "] >>

validate_manifest_file(file) == TryExcept(ManifestTryBody(file), ManifestHandlers)

(***************************************************************************)
(* The validate-rules command: main, validate_all_rules and                *)
(* validate_all_manifests                                                  *)
(***************************************************************************)
VARIABLES
    repo,          \* the repository the command runs on
    args,          \* the parsed command line
    pc,            \* position of main
    idx,           \* files of the running loop visited so far
    valid_files,   \* local of the running loop
    total_files,   \* local of the running loop
    total_valid,   \* local of main
    total_all,     \* main's total_files
    ret_rules,     \* what validate_all_rules returned, <<>> before it returns
    last,          \* the latest call of the function under study: argument and result
    visits,        \* visits[i]: calls of validate_rule_file on the i-th rule file
    results,       \* is_valid of every validate_*_file call so far
    exit_code,     \* exit status of the process, -1 while it runs
    bundle,        \* the bundle directory the manifest generator works on
    clock,         \* datetime.utcnow(), in ticks
    produced       \* outcome of every create_bundle_manifest call so far

cmdVars == <<repo, args, idx, valid_files, total_files, total_valid, total_all,
             ret_rules, visits, results, exit_code>>

genVars == <<bundle, clock, produced>>

vars == <<repo, args, pc, idx, valid_files, total_files, total_valid, total_all,
          ret_rules, last, visits, results, exit_code, bundle, clock, produced>>

\* no bundle directory is being worked on
NoBundle == [parent |-> "", name |-> "", rules |-> "absent", files |-> <<>>,
             manifest |-> <<>>]

\* the manifest generator is not running
GenIdle ==
    /\ bundle = NoBundle
    /\ clock = 0
    /\ produced = <<>>

\* the validate-rules command is not running
CmdIdle ==
    /\ repo = [schemas |-> TRUE, rule_files |-> 0, manifest_files |-> 0]
    /\ args = [rules |-> FALSE, manifests |-> FALSE, all |-> FALSE]
    /\ idx = 0
    /\ valid_files = 0
    /\ total_files = 0
    /\ total_valid = 0
    /\ total_all = 0
    /\ ret_rules = <<>>
    /\ visits = <<>>
    /\ results = <<>>
    /\ exit_code = -1

NoCall == [what |-> "none"]

\* argparse: three store_true flags
ArgValues == [rules : BOOLEAN, manifests : BOOLEAN, all : BOOLEAN]

\* `if not any([...]): args.all = True`
DefaultArgs(a) ==
    IF ~(a.rules \/ a.manifests \/ a.all) THEN [a EXCEPT !.all = TRUE] ELSE a

Init ==
    /\ repo \in [schemas : BOOLEAN,
                 rule_files : 0..MaxRuleFiles,
                 manifest_files : 0..MaxManifestFiles]
    /\ args \in ArgValues
    /\ pc = "start"
    /\ idx = 0
    /\ valid_files = 0
    /\ total_files = 0
    /\ total_valid = 0
    /\ total_all = 0
    /\ ret_rules = <<>>
    /\ last = NoCall
    /\ visits = [i \in 1..repo.rule_files |-> 0]
    /\ results = <<>>
    /\ exit_code = -1
    /\ GenIdle

\* where main goes after the rules section
AfterRules(a) == IF a.manifests \/ a.all THEN "manifests" ELSE "summary"

\* main up to the first section: defaults the flags and constructs the
\* validator, whose _load_schema opens the three schema files
Start ==
    /\ pc = "start"
    /\ repo.schemas
    /\ args' = DefaultArgs(args)
    /\ pc' = IF args'.rules \/ args'.all THEN "rules" ELSE AfterRules(args')
    /\ UNCHANGED <<repo, idx, valid_files, total_files, total_valid, total_all,
                   ret_rules, last, visits, results, exit_code>>
    /\ UNCHANGED genVars

\* the constructor raises out of main when a schema file is missing: the
\* interpreter prints the traceback and exits with status 1
StartFails ==
    /\ pc = "start"
    /\ ~repo.schemas
    /\ args' = DefaultArgs(args)
    /\ pc' = "crashed"
    /\ exit_code' = 1
    /\ UNCHANGED <<repo, idx, valid_files, total_files, total_valid, total_all,
                   ret_rules, last, visits, results>>
    /\ UNCHANGED genVars

\* variant: the loop ends at the first invalid file
ValidateRule_StopsAtInvalid ==
    /\ pc = "rules"
    /\ idx < repo.rule_files
    /\ \E file \in BundleRuleFiles :
          LET r == validate_rule_file(file)
          IN  /\ last' = [what |-> "rule", file |-> file, result |-> r]
              /\ total_files' = total_files + 1
              /\ IF r.escaped
                 THEN /\ pc' = "crashed"
                      /\ exit_code' = 1
                      /\ UNCHANGED <<valid_files, results>>
                 ELSE /\ valid_files' = IF r.is_valid THEN valid_files + 1 ELSE valid_files
                      /\ results' = Append(results, r.is_valid)
                      /\ UNCHANGED <<pc, exit_code>>
              /\ idx' = IF r.is_valid THEN idx + 1 ELSE repo.rule_files
    /\ visits' = [visits EXCEPT ![idx + 1] = @ + 1]
    /\ UNCHANGED <<repo, args, total_valid, total_all, ret_rules>>
    /\ UNCHANGED genVars

\* one iteration of the loop of validate_all_rules; total_files is counted
\* before the call, and an exception that left validate_rule_file would
\* leave the loop and main uncaught
ValidateRule ==
    /\ pc = "rules"
    /\ idx < repo.rule_files
    /\ \E file \in BundleRuleFiles :
          LET r == validate_rule_file(file)
          IN  /\ last' = [what |-> "rule", file |-> file, result |-> r]
              /\ total_files' = total_files + 1
              /\ IF r.escaped
                 THEN /\ pc' = "crashed"
                      /\ exit_code' = 1
                      /\ UNCHANGED <<valid_files, results>>
                 ELSE /\ valid_files' = IF r.is_valid THEN valid_files + 1 ELSE valid_files
                      /\ results' = Append(results, r.is_valid)
                      /\ UNCHANGED <<pc, exit_code>>
    /\ idx' = idx + 1
    /\ visits' = [visits EXCEPT ![idx + 1] = @ + 1]
    /\ UNCHANGED <<repo, args, total_valid, total_all, ret_rules>>
    /\ UNCHANGED genVars

\* validate_all_rules returns and main adds the counts
ReturnRules ==
    /\ pc = "rules"
    /\ idx = repo.rule_files
    /\ ret_rules' = <<valid_files, total_files>>
    /\ total_valid' = total_valid + valid_files
    /\ total_all' = total_all + total_files
    /\ pc' = AfterRules(args)
    /\ idx' = 0
    /\ valid_files' = 0
    /\ total_files' = 0
    /\ UNCHANGED <<repo, args, last, visits, results, exit_code>>
    /\ UNCHANGED genVars

\* one iteration of the loop of validate_all_manifests
ValidateManifest ==
    /\ pc = "manifests"
    /\ idx < repo.manifest_files
    /\ \E file \in ManifestFiles :
          LET r == validate_manifest_file(file)
          IN  /\ last' = [what |-> "manifest", file |-> file, result |-> r]
              /\ total_files' = total_files + 1
              /\ IF r.escaped
                 THEN /\ pc' = "crashed"
                      /\ exit_code' = 1
                      /\ UNCHANGED <<valid_files, results>>
                 ELSE /\ valid_files' = IF r.is_valid THEN valid_files + 1 ELSE valid_files
                      /\ results' = Append(results, r.is_valid)
                      /\ UNCHANGED <<pc, exit_code>>
    /\ idx' = idx + 1
    /\ UNCHANGED <<repo, args, total_valid, total_all, ret_rules, visits>>
    /\ UNCHANGED genVars

\* validate_all_manifests returns and main adds the counts
ReturnManifests ==
    /\ pc = "manifests"
    /\ idx = repo.manifest_files
    /\ total_valid' = total_valid + valid_files
    /\ total_all' = total_all + total_files
    /\ pc' = "summary"
    /\ idx' = 0
    /\ valid_files' = 0
    /\ total_files' = 0
    /\ UNCHANGED <<repo, args, ret_rules, last, visits, results, exit_code>>
    /\ UNCHANGED genVars

\* the summary: `return 0 if total_valid == total_files else 1`, handed to
\* sys.exit
Summary ==
    /\ pc = "summary"
    /\ exit_code' = IF total_valid = total_all THEN 0 ELSE 1
    /\ pc' = "exit"
    /\ UNCHANGED <<repo, args, idx, valid_files, total_files, total_valid, total_all,
                   ret_rules, last, visits, results>>
    /\ UNCHANGED genVars

Next ==
    \/ Start
    \/ StartFails
    \/ ValidateRule
    \/ ReturnRules
    \/ ValidateManifest
    \/ ReturnManifests
    \/ Summary

Spec == Init /\ [][Next]_vars

(***************************************************************************)
(* validate_rule_file called on one file, the way the unit tests call it:  *)
(* the validator is constructed, the caller holds the path of any rule     *)
(* file and calls once.                                                    *)
(***************************************************************************)
FileInit ==
    /\ repo = [schemas |-> TRUE, rule_files |-> 0, manifest_files |-> 0]
    /\ args = [rules |-> FALSE, manifests |-> FALSE, all |-> FALSE]
    /\ pc = "call"
    /\ idx = 0
    /\ valid_files = 0
    /\ total_files = 0
    /\ total_valid = 0
    /\ total_all = 0
    /\ ret_rules = <<>>
    /\ last \in {[what |-> "argument", file |-> f] : f \in RuleFiles}
    /\ visits = <<>>
    /\ results = <<>>
    /\ exit_code = -1
    /\ GenIdle

CallValidateRuleFile ==
    /\ pc = "call"
    /\ LET r == validate_rule_file(last.file)
       IN  /\ last' = [what |-> "rule", file |-> last.file, result |-> r]
           /\ pc' = IF r.escaped THEN "crashed" ELSE "returned"
           /\ results' = IF r.escaped THEN results ELSE Append(results, r.is_valid)
    /\ UNCHANGED <<repo, args, idx, valid_files, total_files, total_valid, total_all,
                   ret_rules, visits, exit_code>>
    /\ UNCHANGED genVars

FileNext == CallValidateRuleFile

FileSpec == FileInit /\ [][FileNext]_vars

(***************************************************************************)
(* More Python built-ins: characters, str.replace, str.title, sorted       *)
(***************************************************************************)
\* the printable ASCII characters in code point order, in runs that leave
\* out the double quote (34), the backslash (92) and the grave accent (96)
AsciiFrom32 == " !"
AsciiFrom35 == "#$%&'()*+,-./0123456789:;<=>?@ABCDEFGHIJKLMNOPQRSTUVWXYZ["
AsciiFrom93 == "]^_"
AsciiFrom97 == "abcdefghijklmnopqrstuvwxyz{|}~"

\* the position of character c in run s, 0 when it is not there
IndexIn(s, c) ==
    IF \E i \in 1..Len(s) : SubSeq(s, i, i) = c
    THEN CHOOSE i \in 1..Len(s) : SubSeq(s, i, i) = c
    ELSE 0

\* ord(c)
Ord(c) ==
    IF IndexIn(AsciiFrom32, c) > 0 THEN 31 + IndexIn(AsciiFrom32, c)
    ELSE IF IndexIn(AsciiFrom35, c) > 0 THEN 34 + IndexIn(AsciiFrom35, c)
    ELSE IF IndexIn(AsciiFrom93, c) > 0 THEN 92 + IndexIn(AsciiFrom93, c)
    ELSE 96 + IndexIn(AsciiFrom97, c)

\* chr(n), for a letter
Chr(n) == IF n < 93 THEN SubSeq(AsciiFrom35, n - 34, n - 34)
          ELSE SubSeq(AsciiFrom97, n - 96, n - 96)

IsUpper(c) == Ord(c) >= 65 /\ Ord(c) <= 90
IsLower(c) == Ord(c) >= 97 /\ Ord(c) <= 122
ToUpper(c) == IF IsLower(c) THEN Chr(Ord(c) - 32) ELSE c
ToLower(c) == IF IsUpper(c) THEN Chr(Ord(c) + 32) ELSE c

\* s.replace(old, new) for a one-character old
RECURSIVE Replace(_, _, _)
Replace(s, old, new) ==
    IF s = "" THEN ""
    ELSE (IF SubSeq(s, 1, 1) = old THEN new ELSE SubSeq(s, 1, 1))
         \o Replace(SubSeq(s, 2, Len(s)), old, new)

\* s.title(): a cased character is upper-cased when the character before it
\* is not cased, lower-cased when it is
RECURSIVE TitleFrom(_, _)
TitleFrom(s, previous_is_cased) ==
    IF s = "" THEN ""
    ELSE LET c == SubSeq(s, 1, 1)
             cased == IsUpper(c) \/ IsLower(c)
         IN  (IF ~cased THEN c
              ELSE IF previous_is_cased THEN ToLower(c) ELSE ToUpper(c))
             \o TitleFrom(SubSeq(s, 2, Len(s)), cased)

Title(s) == TitleFrom(s, FALSE)

\* a < b for two strings: code point order, a proper prefix first
RECURSIVE StrLess(_, _)
StrLess(a, b) ==
    IF b = "" THEN FALSE
    ELSE IF a = "" THEN TRUE
    ELSE IF SubSeq(a, 1, 1) = SubSeq(b, 1, 1)
         THEN StrLess(SubSeq(a, 2, Len(a)), SubSeq(b, 2, Len(b)))
         ELSE Ord(SubSeq(a, 1, 1)) < Ord(SubSeq(b, 1, 1))

\* sorted(list(S)) for a set of strings
RECURSIVE Sorted(_)
Sorted(S) ==
    IF S = {} THEN <<>>
    ELSE LET least == CHOOSE x \in S : \A y \in S : x = y \/ StrLess(x, y)
         IN  <<least>> \o Sorted(S \ {least})

\* the elements of a list, as a set
Elements(xs) == {xs[i] : i \in 1..Len(xs)}

(***************************************************************************)
(* Rule files as the manifest generator sees them                          *)
(*                                                                         *)
(* text is an excerpt of the raw content; parse is what open() and         *)
(* yaml.safe_load do with the file: "unreadable" (open or read raises),    *)
(* "yaml_error", "empty" (None), "sequence" (a list), "scalar" (a string)  *)
(* or "mapping" (the dict in field doc).  A YAML value whose type decides  *)
(* what the code does with it carries its type: [type, val].               *)
(***************************************************************************)
YamlStr(s) == [type |-> "str", val |-> s]
YamlList(xs) == [type |-> "list", val |-> xs]
YamlDict(d) == [type |-> "dict", val |-> d]

\* path.stem: the file name without its last suffix
Stem(name) ==
    LET dots == {i \in 2..Len(name) : SubSeq(name, i, i) = "."}
    IN  IF dots = {} THEN name
        ELSE SubSeq(name, 1, (CHOOSE i \in dots : \A j \in dots : j <= i) - 1)

\* path.suffix
Suffix(name) == SubSeq(name, Len(Stem(name)) + 1, Len(name))

(***************************************************************************)
(* BundleManifestGenerator._get_default_metadata and _load_rule_metadata   *)
(***************************************************************************)
get_default_metadata(rule_file) ==
    LET filename == Stem(rule_file.name)
    IN  [id |-> filename,
         name |-> Title(Replace(Replace(filename, "-", " "), "_", " ")),
         version |-> "1.0",
         category |-> YamlStr("security"),
         subcategory |-> "unknown",
         severity |-> "medium",
         standards |-> YamlDict(EmptyDict),
         tags |-> <<>>]

\* the markers of a file that a shell here-document spilled into
HasMarker(content) ==
    Contains(content, "EOF") \/ Contains(content, "cat >") \/ Contains(content, "<<")

\* the body of the try block; raised is the exception that leaves it
LoadTryBody(rule_file) ==
    IF rule_file.parse = "unreadable"
    THEN [raised |-> "PermissionError", value |-> <<>>]
    ELSE IF HasMarker(rule_file.text)
    THEN [raised |-> "none", value |-> get_default_metadata(rule_file)]
    ELSE IF rule_file.parse = "yaml_error"
    THEN [raised |-> "YAMLError", value |-> <<>>]
    ELSE IF rule_file.parse = "empty"
    THEN [raised |-> "none", value |-> get_default_metadata(rule_file)]
    ELSE IF rule_file.parse \in {"sequence", "scalar"}
    THEN [raised |-> "AttributeError", value |-> <<>>]
    ELSE LET rule_data == rule_file.doc
         IN  [raised |-> "none",
              value |-> [id |-> Get(rule_data, "id", ""),
                         name |-> Get(rule_data, "name", ""),
                         version |-> Get(rule_data, "version", "1.0"),
                         category |-> Get(rule_data, "category", YamlStr("")),
                         subcategory |-> Get(rule_data, "subcategory", ""),
                         severity |-> Get(rule_data, "severity", "medium"),
                         standards |-> Get(rule_data, "standards", YamlDict(EmptyDict)),
                         tags |-> Get(rule_data, "tags", <<>>)]]

\* the exception classes that an except Exception clause catches
CaughtByException == {"PermissionError", "YAMLError", "AttributeError", "TypeError", "KeyError"}

\* variant: the loader catches YAML errors only
load_rule_metadata_YamlErrorsOnly(rule_file) ==
    LET body == LoadTryBody(rule_file)
    IN  IF body.raised = "none" THEN [escaped |-> FALSE, value |-> body.value]
        ELSE IF body.raised = "YAMLError"
        THEN [escaped |-> FALSE, value |-> get_default_metadata(rule_file)]
        ELSE [escaped |-> TRUE, value |-> <<>>]

load_rule_metadata(rule_file) ==
    LET body == LoadTryBody(rule_file)
    IN  IF body.raised = "none" THEN [escaped |-> FALSE, value |-> body.value]
        ELSE IF body.raised \in CaughtByException
        THEN [escaped |-> FALSE, value |-> get_default_metadata(rule_file)]
        ELSE [escaped |-> TRUE, value |-> <<>>]

(***************************************************************************)
(* Rule files handed to the loader, and one _load_rule_metadata call       *)
(***************************************************************************)
LoaderNames == {"llm01-prompt_injection.yaml", "sql_injection.yml", "XSS-basic.yaml", "rule.v2.yaml"}

\* excerpts of file content: one clean, one for each contamination marker
LoaderTexts == {"id: tavoai-sqli", "cat > rule.yaml", "shift: 1 << 2", "note: EOF"}

SqliDoc ==
    ("id" :> "tavoai-sqli") @@ ("name" :> "SQL Injection") @@ ("version" :> "2.0")
    @@ ("category" :> YamlStr("injection")) @@ ("subcategory" :> "sql")
    @@ ("severity" :> "high")
    @@ ("standards" :> YamlDict(("cwe" :> YamlList(<<"CWE-89">>))))
    @@ ("tags" :> <<"sql">>)

\* mappings a rule file can hold: complete, empty, partial, and with a
\* category or standards value of an unexpected type
LoaderDocs ==
    {SqliDoc,
     EmptyDict,
     ("id" :> "tavoai-xss") @@ ("severity" :> "low"),
     ("id" :> "tavoai-multi") @@ ("category" :> YamlList(<<"web", "api">>))
         @@ ("severity" :> "high"),
     ("id" :> "tavoai-flat") @@ ("category" :> YamlStr("web"))
         @@ ("standards" :> YamlList(<<"CWE-79">>))}

LoaderFiles ==
    {[name |-> n, text |-> t, parse |-> k, doc |-> EmptyDict]
        : n \in LoaderNames, t \in LoaderTexts,
          k \in {"unreadable", "yaml_error", "empty", "sequence", "scalar"}}
    \cup {[name |-> n, text |-> t, parse |-> "mapping", doc |-> d]
            : n \in LoaderNames, t \in LoaderTexts, d \in LoaderDocs}

LoadInit ==
    /\ CmdIdle
    /\ GenIdle
    /\ pc = "load"
    /\ last \in {[what |-> "load_argument", file |-> f] : f \in LoaderFiles}

CallLoadRuleMetadata ==
    /\ pc = "load"
    /\ LET r == load_rule_metadata(last.file)
       IN  /\ last' = [what |-> "load", file |-> last.file, result |-> r]
           /\ pc' = IF r.escaped THEN "crashed" ELSE "loaded"
    /\ UNCHANGED cmdVars
    /\ UNCHANGED genVars

LoadNext == CallLoadRuleMetadata

LoadSpec == LoadInit /\ [][LoadNext]_vars

(***************************************************************************)
(* BundleManifestGenerator._analyze_bundle_rules                           *)
(*                                                                         *)
(* A bundle directory is [parent, name, rules, files, manifest]: the name  *)
(* of its parent directory, its own name, whether rules/ is "absent", a    *)
(* plain "file" or a "dir", the entries of rules/ in the order the file    *)
(* system lists them, and the content of manifest.json (<<>> when the      *)
(* file is not there).                                                     *)
(***************************************************************************)
MaxBundleFiles == 2

\* a YAML null, Python's None
YamlNull == [type |-> "null", val |-> ""]

\* rules_dir.glob("*" + suffix), in directory order
Glob(files, suffix) == SelectSeq(files, LAMBDA f : Suffix(f.name) = suffix)

\* the local variables rules, categories, severities, standards
EmptyAnalysis == [rules |-> <<>>, categories |-> {}, severities |-> {}, standards |-> EmptyDict]

RuleSummary(rule_metadata) ==
    [id |-> rule_metadata.id,
     name |-> rule_metadata.name,
     version |-> rule_metadata.version,
     severity |-> rule_metadata.severity,
     category |-> rule_metadata.category,
     tags |-> rule_metadata.tags]

\* what one rule adds under std_type: its list entries, or str() of a scalar
StandardValues(std_values) ==
    IF std_values.type = "list" THEN Elements(std_values.val) ELSE {std_values.val}

\* the loop over rule_metadata["standards"].items()
MergeStandards(standards, rule_standards) ==
    [std_type \in DOMAIN standards \cup DOMAIN rule_standards |->
        Get(standards, std_type, {})
        \cup (IF std_type \in DOMAIN rule_standards
              THEN StandardValues(rule_standards[std_type])
              ELSE {})]

\* variant: the rule is appended at the end of the try block
AnalyzeLoaded_AppendLast(acc, rule_metadata) ==
    LET added == [acc EXCEPT !.categories = @ \cup {rule_metadata.category},
                             !.severities = @ \cup {rule_metadata.severity}]
    IN  IF rule_metadata.category.type \in {"list", "dict"} THEN acc
        ELSE IF rule_metadata.standards.type # "dict" THEN added
        ELSE [added EXCEPT !.standards = MergeStandards(@, rule_metadata.standards.val),
                           !.rules = Append(@, RuleSummary(rule_metadata))]

\* the loop body after the loader has returned rule_metadata.  rules.append
\* comes first; set.add raises TypeError on an unhashable category and
\* .items() raises AttributeError on standards that are not a mapping, and
\* the handler goes on to the next file with what was accumulated before
\* the exception.
AnalyzeLoaded(acc, rule_metadata) ==
    LET appended == [acc EXCEPT !.rules = Append(@, RuleSummary(rule_metadata))]
        added == [appended EXCEPT !.categories = @ \cup {rule_metadata.category},
                                  !.severities = @ \cup {rule_metadata.severity}]
    IN  IF rule_metadata.category.type \in {"list", "dict"} THEN appended
        ELSE IF rule_metadata.standards.type # "dict" THEN added
        ELSE [added EXCEPT !.standards = MergeStandards(@, rule_metadata.standards.val)]

\* one pass of the loop
AnalyzeFile(acc, rule_file) == AnalyzeLoaded(acc, load_rule_metadata(rule_file).value)

RECURSIVE AnalyzeFiles(_, _)
AnalyzeFiles(acc, rule_files) ==
    IF rule_files = <<>> THEN acc
    ELSE AnalyzeFiles(AnalyzeFile(acc, Head(rule_files)), Tail(rule_files))

\* sorted() compares its elements: None against a string raises TypeError
Sortable(categories) == ~(YamlNull \in categories /\ Cardinality(categories) > 1)

SortedCategories(categories) ==
    IF categories = {YamlNull} THEN <<YamlNull>>
    ELSE Sorted({c.val : c \in categories})

\* the statements after the loop: the sets become sorted lists
AnalysisResult(acc, rule_files) ==
    IF ~Sortable(acc.categories)
    THEN [raised |-> "TypeError", value |-> EmptyDict]
    ELSE [raised |-> "none",
          value |-> ("rules" :> acc.rules)
                    @@ ("categories" :> SortedCategories(acc.categories))
                    @@ ("severities" :> Sorted(acc.severities))
                    @@ ("standards" :> [std_type \in DOMAIN acc.standards |->
                                           Sorted(acc.standards[std_type])])
                    @@ ("rule_count" :> Len(acc.rules))
                    @@ ("rule_files" :> rule_files)]

\* the rule files found: *.yaml first, then *.yml, when rules/ is a directory
RuleFilesOf(bundle_path) ==
    IF bundle_path.rules = "dir"
    THEN Glob(bundle_path.files, ".yaml") \o Glob(bundle_path.files, ".yml")
    ELSE <<>>

analyze_bundle_rules(bundle_path) ==
    IF bundle_path.rules = "absent"
    THEN [raised |-> "none",
          value |-> ("rules" :> <<>>) @@ ("categories" :> <<>>) @@ ("severities" :> <<>>)]
    ELSE AnalysisResult(AnalyzeFiles(EmptyAnalysis, RuleFilesOf(bundle_path)),
                        RuleFilesOf(bundle_path))

(***************************************************************************)
(* BundleManifestGenerator: pricing tier, description, manifest            *)
(***************************************************************************)
\* variant: only the substring "free" makes a bundle free
determine_pricing_tier_FreeOnly(bundle_name) ==
    IF Contains(bundle_name, "free")
    THEN "free"
    ELSE IF \/ Contains(bundle_name, "ai-enhanced")
            \/ Contains(bundle_name, "pro")
            \/ Contains(bundle_name, "compliance")
    THEN "paid"
    ELSE "enterprise"

determine_pricing_tier(bundle_name) ==
    IF Contains(bundle_name, "free") \/ Contains(bundle_name, "owasp-llm-basic")
    THEN "free"
    ELSE IF \/ Contains(bundle_name, "ai-enhanced")
            \/ Contains(bundle_name, "pro")
            \/ Contains(bundle_name, "compliance")
    THEN "paid"
    ELSE "enterprise"

\* the descriptions dict, in insertion order
descriptions ==
    << [key |-> "free/owasp-llm-basic",
        desc |-> "Heuristic-only OWASP LLM Top 10 rules for basic security scanning"],
       [key |-> "ai-enhanced/owasp-llm-pro",
        desc |-> "AI-enhanced OWASP LLM Top 10 analysis with deep contextual understanding"],
       [key |-> "ai-enhanced/iso-42001-compliance",
        desc |-> "Comprehensive ISO 42001 AI governance compliance rules"],
       [key |-> "ai-enhanced/mit-ai-risk-repo",
        desc |-> "MIT AI Risk Repository rules covering emerging AI safety concerns"],
       [key |-> "ai-enhanced/ai-ethics",
        desc |-> "AI Ethics rules for fairness, transparency, and responsible AI development"],
       [key |-> "ai-enhanced/bias-detection",
        desc |-> "Bias detection rules for identifying and mitigating AI bias issues"] >>

get_bundle_description(bundle_name) ==
    LET exact == SelectSeq(descriptions, LAMBDA d : d.key = bundle_name)
        partial == SelectSeq(descriptions,
                             LAMBDA d : Contains(bundle_name, d.key) \/ Contains(d.key, bundle_name))
    IN  IF exact # <<>> THEN Head(exact).desc
        ELSE IF partial # <<>> THEN Head(partial).desc
        ELSE "TavoAI security rules bundle: " \o bundle_name

TierDirs == {"free", "ai-enhanced", "enterprise"}

full_bundle_name(bundle_path) ==
    IF bundle_path.parent \in TierDirs
    THEN bundle_path.parent \o "/" \o bundle_path.name
    ELSE bundle_path.name

\* the manifest dict literal, given what the analyzer returned; printed is
\* the qualified name of the progress line.  The dict returned for a missing
\* rules/ has no "rule_count" key, and the subscript analysis["rule_count"]
\* raises KeyError.
ManifestOf(bundle_path, now, analyzed, qualified) ==
    IF analyzed.raised # "none"
    THEN [raised |-> analyzed.raised, printed |-> qualified, manifest |-> EmptyDict]
    ELSE IF {"rule_count", "standards"} \ DOMAIN analyzed.value # {}
    THEN [raised |-> "KeyError", printed |-> qualified, manifest |-> EmptyDict]
    ELSE [raised |-> "none",
          printed |-> qualified,
          manifest |->
            [id |-> Replace(Replace(bundle_path.name, "/", "-"), "_", "-"),
             name |-> Title(Replace(Replace(bundle_path.name, "-", " "), "_", " ")),
             description |-> get_bundle_description(qualified),
             version |-> "1.0.0",
             artifact_type |-> "rule_bundle",
             pricing_tier |-> determine_pricing_tier(qualified),
             author |-> "TavoAI Security Team",
             license |-> "MIT",
             homepage |-> "https://github.com/TavoAI/tavo-rules",
             documentation |-> "https://docs.tavoai.com/rules",
             created_at |-> now + 1,
             updated_at |-> now + 2,
             artifacts |-> [i \in 1..Len(Get(analyzed.value, "rule_files", <<>>)) |->
                              "rules/" \o Get(analyzed.value, "rule_files", <<>>)[i].name],
             dependencies |-> <<>>,
             tags |-> analyzed.value["categories"]
                      \o [i \in 1..Len(analyzed.value["severities"]) |->
                            "severity-" \o analyzed.value["severities"][i]],
             metadata |-> [rule_count |-> analyzed.value["rule_count"],
                           categories |-> analyzed.value["categories"],
                           severities |-> analyzed.value["severities"],
                           standards |-> analyzed.value["standards"],
                           compatible_scanners |-> <<"tavoai", "semgrep", "opengrep">>,
                           min_scanner_version |-> "1.0.0"]]]

\* create_bundle_manifest called when datetime.utcnow() stands at now
create_bundle_manifest(bundle_path, now) ==
    ManifestOf(bundle_path, now, analyze_bundle_rules(bundle_path),
               full_bundle_name(bundle_path))

(***************************************************************************)
(* Generating, saving and validating the manifest of one bundle            *)
(***************************************************************************)
MaxRuns == 2

\* entries a rules/ directory can hold
BundleFileChoices ==
    {[name |-> "sqli.yaml", text |-> "id: tavoai-sqli", parse |-> "mapping",
      doc |-> ("id" :> "tavoai-sqli") @@ ("name" :> "SQL Injection")
              @@ ("category" :> YamlStr("injection")) @@ ("severity" :> "high")
              @@ ("standards" :> YamlDict(("cwe" :> YamlList(<<"CWE-89">>))
                                          @@ ("owasp" :> YamlStr("A03"))))],
     [name |-> "xss.yml", text |-> "id: tavoai-xss", parse |-> "mapping",
      doc |-> ("id" :> "tavoai-xss") @@ ("category" :> YamlStr("web"))
              @@ ("standards" :> YamlDict(("cwe" :> YamlList(<<"CWE-89", "CWE-79">>))))],
     [name |-> "multi.yaml", text |-> "id: tavoai-multi", parse |-> "mapping",
      doc |-> ("id" :> "tavoai-multi") @@ ("category" :> YamlList(<<"web", "api">>))
              @@ ("severity" :> "critical")
              @@ ("standards" :> YamlDict(("cwe" :> YamlList(<<"CWE-20">>))))],
     [name |-> "flat.yaml", text |-> "id: tavoai-flat", parse |-> "mapping",
      doc |-> ("id" :> "tavoai-flat") @@ ("category" :> YamlStr("injection"))
              @@ ("severity" :> "low") @@ ("standards" :> YamlList(<<"CWE-79">>))],
     [name |-> "nocat.yml", text |-> "category:", parse |-> "mapping",
      doc |-> ("id" :> "tavoai-nocat") @@ ("category" :> YamlNull) @@ ("severity" :> "high")],
     [name |-> "broken_rule.yaml", text |-> "id: [", parse |-> "yaml_error", doc |-> EmptyDict],
     [name |-> "README.md", text |-> "# rules", parse |-> "scalar", doc |-> EmptyDict]}

\* what rules/ can list: up to MaxBundleFiles entries with distinct names,
\* in any order
Listings ==
    {fs \in UNION {[1..n -> BundleFileChoices] : n \in 0..MaxBundleFiles} :
        \A i, j \in 1..Len(fs) : i # j => fs[i].name # fs[j].name}

BundleParents == {"free", "ai-enhanced", "enterprise", "bundles"}

BundleNames == {"owasp-llm-basic", "owasp-llm-pro", "ai-ethics", "custom_rules", "free-trial"}

\* every parent and name with at most one entry in rules/, and the longer
\* listings under one bundle
Bundles ==
    {[parent |-> p, name |-> n, rules |-> r, files |-> <<>>, manifest |-> <<>>]
        : p \in BundleParents, n \in BundleNames, r \in {"absent", "file"}}
    \cup {[parent |-> p, name |-> n, rules |-> "dir", files |-> fs, manifest |-> <<>>]
            : p \in BundleParents, n \in BundleNames, fs \in {l \in Listings : Len(l) <= 1}}
    \cup {[parent |-> "bundles", name |-> "owasp-llm-pro", rules |-> "dir", files |-> fs,
           manifest |-> <<>>]
            : fs \in {l \in Listings : Len(l) > 1}}

GenInit ==
    /\ CmdIdle
    /\ pc = "create"
    /\ last = NoCall
    /\ bundle \in Bundles
    /\ clock = 0
    /\ produced = <<>>

\* one create_bundle_manifest call on the bundle directory
CreateBundleManifest ==
    /\ pc = "create"
    /\ Len(produced) < MaxRuns
    /\ LET r == create_bundle_manifest(bundle, clock)
       IN  /\ produced' = Append(produced, r)
           /\ clock' = IF r.raised = "none" THEN clock + 2 ELSE clock
           /\ pc' = IF r.raised = "none" THEN "save" ELSE "create_raised"
    /\ UNCHANGED <<bundle, last>>
    /\ UNCHANGED cmdVars

\* variant: the manifest is also written into rules/ under a rule file name
SaveManifest_IntoRulesDir ==
    /\ pc = "save"
    /\ bundle' = [bundle EXCEPT
                    !.manifest = produced[Len(produced)].manifest,
                    !.files = IF \E i \in 1..Len(@) : @[i].name = "manifest.yaml" THEN @
                              ELSE Append(@, [name |-> "manifest.yaml", text |-> "id: x",
                                              parse |-> "mapping", doc |-> EmptyDict])]
    /\ pc' = "validate"
    /\ UNCHANGED <<clock, produced, last>>
    /\ UNCHANGED cmdVars

\* save_manifest: json.dump of the manifest into <bundle>/manifest.json.
\* The manifest holds strings, integers, None, lists and dicts with string
\* keys, which json.load gives back as they were.
SaveManifest ==
    /\ pc = "save"
    /\ bundle' = [bundle EXCEPT !.manifest = produced[Len(produced)].manifest]
    /\ pc' = "validate"
    /\ UNCHANGED <<clock, produced, last>>
    /\ UNCHANGED cmdVars

\* manifest.json as validate_manifest_file finds it
SavedManifestFile ==
    [kind |-> "mapping",
     doc |-> bundle.manifest,
     on_disk |-> {"rules/" \o bundle.files[i].name : i \in 1..Len(bundle.files)}]

\* validate_manifest_file on the saved manifest.json
ValidateSavedManifest ==
    /\ pc = "validate"
    /\ last' = [what |-> "saved_manifest", file |-> SavedManifestFile,
                result |-> validate_manifest_file(SavedManifestFile)]
    /\ pc' = "create"
    /\ UNCHANGED genVars
    /\ UNCHANGED cmdVars

GenNext ==
    \/ CreateBundleManifest
    \/ SaveManifest
    \/ ValidateSavedManifest

GenSpec == GenInit /\ [][GenNext]_vars

(***************************************************************************)
(* One validate_manifest_file call                                         *)
(*                                                                         *)
(* on_disk holds the paths, relative to the manifest's directory, for      *)
(* which Path.exists() is true: the rule files that are there and, with    *)
(* them, the directory rules itself, which dirs names.                     *)
(***************************************************************************)
ManifestCallDocs ==
    {i @@ a : i \in Opt("id", {"tavoai-owasp-llm", "owasp-llm"}),
              a \in Opt("artifacts", {<<>>, <<"rules/a.yaml">>,
                                      <<"rules/a.yaml", "rules/b.yaml">>,
                                      <<"rules/a.yaml", "rules/a.yaml">>,
                                      <<"rules", "rules/b.yaml">>})}

ManifestCallFiles ==
    {[kind |-> k, doc |-> EmptyDict, on_disk |-> {}, dirs |-> {}]
        : k \in {"json_error", "sequence"}}
    \cup {[kind |-> "mapping", doc |-> d,
           on_disk |-> IF e = {} THEN {} ELSE e \cup {"rules"},
           dirs |-> IF e = {} THEN {} ELSE {"rules"}]
            : d \in ManifestCallDocs, e \in SUBSET ArtifactPaths}

ManifestInit ==
    /\ CmdIdle
    /\ GenIdle
    /\ pc = "call_manifest"
    /\ last \in {[what |-> "manifest_argument", file |-> f] : f \in ManifestCallFiles}

CallValidateManifestFile ==
    /\ pc = "call_manifest"
    /\ LET r == validate_manifest_file(last.file)
       IN  /\ last' = [what |-> "manifest_call", file |-> last.file, result |-> r]
           /\ pc' = IF r.escaped THEN "crashed" ELSE "returned"
    /\ UNCHANGED cmdVars
    /\ UNCHANGED genVars

ManifestNext == CallValidateManifestFile

ManifestSpec == ManifestInit /\ [][ManifestNext]_vars

(***************************************************************************)
(* SARIFGenerator: severity level, standard ids, rule definition           *)
(***************************************************************************)
\* str.lower and str.upper, on ASCII letters
RECURSIVE Lower(_)
Lower(s) == IF s = "" THEN "" ELSE ToLower(SubSeq(s, 1, 1)) \o Lower(SubSeq(s, 2, Len(s)))

RECURSIVE Upper(_)
Upper(s) == IF s = "" THEN "" ELSE ToUpper(SubSeq(s, 1, 1)) \o Upper(SubSeq(s, 2, Len(s)))

\* the slice s[:n]
Slice(s, n) == SubSeq(s, 1, IF Len(s) < n THEN Len(s) ELSE n)

\* the slices [:200], [:1000], [:5000] and [:200] of the mapping
ShortDescriptionLimit == 200
FullDescriptionLimit == 1000
RemediationLimit == 5000
SnippetLimit == 200

severity_map ==
    ("critical" :> "error") @@ ("high" :> "error") @@ ("medium" :> "warning")
    @@ ("low" :> "note") @@ ("info" :> "note")

\* variant: the severity is looked up as written
map_severity_to_level_CaseSensitive(severity) == Get(severity_map, severity, "warning")

map_severity_to_level(severity) == Get(severity_map, Lower(severity), "warning")

\* re.search(r"(\d+)", std).group(1): the first run of digits, "" for no match
FirstDigitRun(std) ==
    LET digit_at == {i \in 1..Len(std) : SubSeq(std, i, i) \in Digits}
    IN  IF digit_at = {} THEN ""
        ELSE LET first == CHOOSE i \in digit_at : \A j \in digit_at : i <= j
                 last_of_run == CHOOSE j \in first..Len(std) :
                                    /\ \A k \in first..j : k \in digit_at
                                    /\ (j + 1) \notin digit_at
             IN  SubSeq(std, first, last_of_run)

\* variant: no isinstance test, every entry goes through str()
extract_standard_ids_AnyType(standards_list) ==
    LET matched == SelectSeq(standards_list, LAMBDA std : FirstDigitRun(std.val) # "")
    IN  [i \in 1..Len(matched) |-> FirstDigitRun(matched[i].val)]

\* entries of a standards list carry their type, for the isinstance test
extract_standard_ids(standards_list) ==
    LET matched == SelectSeq(standards_list,
                             LAMBDA std : std.type = "str" /\ FirstDigitRun(std.val) # "")
    IN  [i \in 1..Len(matched) |-> FirstDigitRun(matched[i].val)]

Relationship(id, component) ==
    [target |-> [id |-> id, toolComponent |-> [name |-> component]],
     kinds |-> <<"relevant">>]

\* the relationships list built from a non-empty standards dict
Relationships(standards) ==
    LET cwe_ids == extract_standard_ids(Get(standards, "cwe", <<>>))
        capec_ids == extract_standard_ids(Get(standards, "capec", <<>>))
        owasp_ids == Get(standards, "owasp_llm", <<>>)
        iso_ids == Get(standards, "iso_42001", <<>>)
    IN  [i \in 1..Len(cwe_ids) |-> Relationship("CWE-" \o cwe_ids[i], "CWE")]
        \o [i \in 1..Len(capec_ids) |-> Relationship("CAPEC-" \o capec_ids[i], "CAPEC")]
        \o [i \in 1..Len(owasp_ids) |-> Relationship(Upper(owasp_ids[i]), "OWASP LLM Top 10")]
        \o [i \in 1..Len(iso_ids) |-> Relationship("ISO42001-" \o iso_ids[i], "ISO 42001")]

\* a dict entry that is there only under a condition
When(condition, entry) == IF condition THEN entry ELSE EmptyDict

create_rule_definition(finding) ==
    LET rule_id == Get(finding, "rule_id", "unknown")
        standards == Get(finding, "standards", EmptyDict)
        properties ==
            ("category" :> Get(finding, "category", "security"))
            @@ ("subcategory" :> Get(finding, "subcategory", ""))
            @@ ("severity" :> Get(finding, "severity", "medium"))
            @@ ("confidence" :> Get(finding, "confidence", "0.8"))
            @@ ("rule_type" :> Get(finding, "rule_type", "unknown"))
            @@ ("tags" :> Get(finding, "tags", <<>>))
            @@ When(~IsEmpty(standards), "standards" :> standards)
    IN  ("id" :> rule_id)
        @@ ("name" :> Get(finding, "rule_name", rule_id))
        @@ ("shortDescription" :>
               [text |-> Slice(Get(finding, "description", "Security finding"),
                               ShortDescriptionLimit)])
        @@ ("properties" :> properties)
        @@ When("full_description" \in DOMAIN finding,
                "fullDescription" :>
                    [text |-> Slice(Get(finding, "full_description", ""), FullDescriptionLimit)])
        @@ When("remediation" \in DOMAIN finding \/ "help_uri" \in DOMAIN finding,
                "help" :> When("remediation" \in DOMAIN finding,
                               "text" :> Slice(Get(finding, "remediation", ""),
                                               RemediationLimit)))
        @@ When("help_uri" \in DOMAIN finding, "helpUri" :> Get(finding, "help_uri", ""))
        @@ When(~IsEmpty(standards) /\ Relationships(standards) # <<>>,
                "relationships" :> Relationships(standards))

(***************************************************************************)
(* SARIFGenerator._create_result_entry                                     *)
(***************************************************************************)
\* the region dict; in a @@ chain the later assignment stands to the left
Region(finding) ==
    When("snippet" \in DOMAIN finding,
         "snippet" :> [text |-> Slice(Get(finding, "snippet", ""), SnippetLimit)])
    @@ When("end_column" \in DOMAIN finding, "endColumn" :> Get(finding, "end_column", 0))
    @@ When("column" \in DOMAIN finding, "startColumn" :> Get(finding, "column", 0))
    @@ (IF "start_line" \in DOMAIN finding /\ "end_line" \in DOMAIN finding
        THEN ("startLine" :> Get(finding, "start_line", 0))
             @@ ("endLine" :> Get(finding, "end_line", 0))
        ELSE When("line" \in DOMAIN finding, "startLine" :> Get(finding, "line", 0)))
    @@ When("line" \in DOMAIN finding, "startLine" :> Get(finding, "line", 0))

\* variant: the region is attached whenever there is a file path
Locations_AlwaysRegion(finding) ==
    IF "file_path" \in DOMAIN finding
    THEN << ("physicalLocation" :>
                (("artifactLocation" :> ("uri" :> Get(finding, "file_path", "")))
                 @@ ("region" :> Region(finding)))) >>
    ELSE <<>>

Locations(finding) ==
    IF "file_path" \in DOMAIN finding
    THEN << ("physicalLocation" :>
                (("artifactLocation" :> ("uri" :> Get(finding, "file_path", "")))
                 @@ When(~IsEmpty(Region(finding)), "region" :> Region(finding)))) >>
    ELSE <<>>

\* result["properties"]; a value missing from ai_analysis is None
ResultProperties(finding) ==
    ("confidence" :> Get(finding, "confidence", "0.8"))
    @@ ("category" :> Get(finding, "category", "security"))
    @@ ("severity" :> Get(finding, "severity", "medium"))
    @@ ("rule_type" :> Get(finding, "rule_type", "unknown"))
    @@ When("ai_analysis" \in DOMAIN finding,
            "ai_analysis" :>
                LET ai_analysis == Get(finding, "ai_analysis", EmptyDict)
                IN  [severity |-> Get(ai_analysis, "severity", "None"),
                     confidence |-> Get(ai_analysis, "confidence", "None"),
                     tokens_used |-> Get(ai_analysis, "tokens_used", "None"),
                     cost_usd |-> Get(ai_analysis, "cost_usd", "None")])
    @@ When("remediation" \in DOMAIN finding,
            "remediation" :> Get(finding, "remediation", ""))
    @@ When("tags" \in DOMAIN finding, "tags" :> Get(finding, "tags", <<>>))
    @@ When(~IsEmpty(Get(finding, "standards", EmptyDict)),
            "standards" :> Get(finding, "standards", EmptyDict))

create_result_entry(finding, rule_index) ==
    ("ruleId" :> Get(finding, "rule_id", "unknown"))
    @@ ("ruleIndex" :> rule_index)
    @@ ("level" :> map_severity_to_level(Get(finding, "severity", "medium")))
    @@ ("message" :> [text |-> Get(finding, "message", "Security finding detected")])
    @@ ("locations" :> Locations(finding))
    @@ ("properties" :> ResultProperties(finding))

(***************************************************************************)
(* Findings, and the conversion of one finding                             *)
(***************************************************************************)
\* n copies of s
RECURSIVE Repeat(_, _)
Repeat(s, n) ==
    IF n = 0 THEN ""
    ELSE IF n % 2 = 0 THEN LET half == Repeat(s, n \div 2) IN half \o half
    ELSE s \o Repeat(s, n - 1)

\* a text of n characters whose characters differ from place to place
Text(n) == SubSeq(Repeat("0123456789", n \div 10 + 1), 1, n)

SeverityValues ==
    {"critical", "CRITICAL", "Critical", "high", "High", "medium", "MEDIUM", "low", "Low",
     "info", "INFO", "unknown", "", "severe", "error", "critical "}

FindingStandards ==
    {EmptyDict,
     ("cwe" :> <<YamlStr("CWE-77"), YamlStr("89"), YamlStr("none")>>)
         @@ ("owasp_llm" :> <<"llm01">>),
     ("capec" :> <<YamlStr("CAPEC-66")>>) @@ ("iso_42001" :> <<"6.1">>)}

\* findings that differ in severity and in the fields passed through
SeverityFindings ==
    {r @@ v @@ st @@ t @@ ai @@ ("file_path" :> "src/app.py")
        : r \in Opt("rule_id", {"tavoai-sqli"}),
          v \in Opt("severity", SeverityValues),
          st \in Opt("standards", FindingStandards),
          t \in Opt("tags", {<<"sql">>}),
          ai \in Opt("ai_analysis", {("severity" :> "high") @@ ("tokens_used" :> "150")})}

\* findings that differ in where they point
LocationFindings ==
    {v @@ fp @@ l @@ sl @@ el @@ c @@ ec @@ sn @@ ("rule_id" :> "tavoai-xss")
        : v \in Opt("severity", {"critical", "low"}),
          fp \in Opt("file_path", {"src/app.py"}),
          l \in Opt("line", {10}),
          sl \in Opt("start_line", {3}),
          el \in Opt("end_line", {7}),
          c \in Opt("column", {5}),
          ec \in Opt("end_column", {9}),
          sn \in Opt("snippet", {"query(x)"})}

\* findings whose texts sit at and just over the limits
TextFindings ==
    {d @@ fd @@ rm @@ sn @@ h @@ ("rule_id" :> "tavoai-long") @@ ("file_path" :> "src/app.py")
        : d \in Opt("description", {Text(5), Text(ShortDescriptionLimit),
                                    Text(ShortDescriptionLimit + 1)}),
          fd \in Opt("full_description", {Text(FullDescriptionLimit),
                                          Text(FullDescriptionLimit + 1)}),
          rm \in Opt("remediation", {Text(RemediationLimit), Text(RemediationLimit + 1)}),
          sn \in Opt("snippet", {Text(SnippetLimit), Text(SnippetLimit + 1)}),
          h \in Opt("help_uri", {"https://docs.tavoai.com/rules"})}

Findings == SeverityFindings \cup LocationFindings \cup TextFindings

SarifInit ==
    /\ CmdIdle
    /\ GenIdle
    /\ pc = "rule_definition"
    /\ last \in {[what |-> "finding", finding |-> f] : f \in Findings}

\* generate_sarif on the first finding of a rule: the rule definition ...
CreateRuleDefinition ==
    /\ pc = "rule_definition"
    /\ last' = [what |-> "rule_definition", finding |-> last.finding,
                rule_def |-> create_rule_definition(last.finding)]
    /\ pc' = "result_entry"
    /\ UNCHANGED cmdVars
    /\ UNCHANGED genVars

\* ... and the result entry, which points at rule 0
CreateResultEntry ==
    /\ pc = "result_entry"
    /\ last' = [what |-> "result", finding |-> last.finding, rule_def |-> last.rule_def,
                result |-> create_result_entry(last.finding, 0)]
    /\ pc' = "converted"
    /\ UNCHANGED cmdVars
    /\ UNCHANGED genVars

SarifNext ==
    \/ CreateRuleDefinition
    \/ CreateResultEntry

SarifSpec == SarifInit /\ [][SarifNext]_vars


(***************************************************************************)
(* One _extract_standard_ids call                                          *)
(***************************************************************************)
MaxStandards == 3

\* entries of a standards list: a prefixed id, a bare id, a word, a version
\* string, and the int 89 (val is its str())
StandardEntries ==
    {YamlStr("CWE-77"), YamlStr("89"), YamlStr("none"), YamlStr("v1.20"),
     [type |-> "int", val |-> "89"]}

StandardsLists == UNION {[1..n -> StandardEntries] : n \in 0..MaxStandards}

ExtractInit ==
    /\ CmdIdle
    /\ GenIdle
    /\ pc = "extract"
    /\ last \in {[what |-> "standards", standards_list |-> xs] : xs \in StandardsLists}

CallExtractStandardIds ==
    /\ pc = "extract"
    /\ last' = [what |-> "ids", standards_list |-> last.standards_list,
                ids |-> extract_standard_ids(last.standards_list)]
    /\ pc' = "extracted"
    /\ UNCHANGED cmdVars
    /\ UNCHANGED genVars

ExtractNext == CallExtractStandardIds

ExtractSpec == ExtractInit /\ [][ExtractNext]_vars


(***************************************************************************)
(* MITRiskSync: a risk record to a rule                                    *)
(*                                                                         *)
(* A risk record is the dict parse_csv_data builds: field name to string.  *)
(***************************************************************************)
DomainConfig(subdomain, category, severity) ==
    [subdomain |-> subdomain, category |-> category, severity |-> severity]

DOMAIN_MAPPING ==
    ("Discrimination & Toxicity" :> DomainConfig("discrimination", "ethics", "high"))
    @@ ("Privacy & Security" :> DomainConfig("security-privacy", "security", "high"))
    @@ ("Misinformation" :> DomainConfig("misinformation", "ethics", "medium"))
    @@ ("Malicious Actors" :> DomainConfig("malicious-use", "security", "critical"))
    @@ ("Human-Computer Interaction"
            :> DomainConfig("human-computer-interaction", "ethics", "medium"))
    @@ ("Sociotechnical Harms" :> DomainConfig("sociotechnical-risks", "ethics", "high"))
    @@ ("AI Harms to the Environment" :> DomainConfig("environmental", "ethics", "medium"))

\* the config generate_rule_from_risk falls back on
DefaultDomainConfig == DomainConfig("general", "security", "medium")

\* \w of the regular expression, on ASCII
IsWordChar(c) == IsLower(c) \/ IsUpper(c) \/ c \in Digits \/ c = "_"

\* re.findall(r'\b\w+\b', s): the maximal runs of word characters, in order
RECURSIVE Words(_, _)
Words(s, current) ==
    LET done == IF current = "" THEN <<>> ELSE <<current>>
    IN  IF s = "" THEN done
        ELSE IF IsWordChar(SubSeq(s, 1, 1))
             THEN Words(SubSeq(s, 2, Len(s)), current \o SubSeq(s, 1, 1))
             ELSE done \o Words(SubSeq(s, 2, Len(s)), "")

Semgrep(languages, pattern, message, severity) ==
    [type |-> "semgrep", languages |-> languages, pattern |-> pattern,
     message |-> message, severity |-> severity]

\* the heuristic of the domain; the patterns are written without the
\* backslashes that escape . ( ) in the source
DomainHeuristics(domain) ==
    IF Contains(Lower(domain), "discrimination")
    THEN <<Semgrep(<<"python">>, "model.fit(.*).*gender|race|age",
                   "Potential discriminatory model training", "high")>>
    ELSE IF Contains(Lower(domain), "privacy")
    THEN <<Semgrep(<<"python">>, "collect.*data.*personal|private",
                   "Potential privacy violation in data collection", "high")>>
    ELSE IF Contains(Lower(domain), "misinformation")
    THEN <<Semgrep(<<"python">>, "generate.*text|response.*without.*validation",
                   "Potential misinformation generation", "medium")>>
    ELSE <<>>

\* the number of leading words that may become keyword heuristics
KeywordLimit == 3
\* a word becomes a keyword when it is longer than this
ShortWordLength == 3
\* the slice heuristics[:5]
HeuristicsLimit == 5

\* re.escape leaves a word of \w characters as it is
KeywordHeuristics(risk_description) ==
    LET keywords == Words(Lower(risk_description), "")
        first == SubSeq(keywords, 1, IF Len(keywords) < KeywordLimit
                                     THEN Len(keywords) ELSE KeywordLimit)
        kept == SelectSeq(first, LAMBDA keyword : Len(keyword) > ShortWordLength)
    IN  [i \in 1..Len(kept) |->
            Semgrep(<<"python", "javascript", "typescript">>, ".*" \o kept[i] \o ".*",
                    "Potential " \o kept[i] \o " risk detected", "low")]

generate_heuristics(risk_description, domain) ==
    LET heuristics == DomainHeuristics(domain) \o KeywordHeuristics(risk_description)
    IN  SubSeq(heuristics, 1, IF Len(heuristics) < HeuristicsLimit
                              THEN Len(heuristics) ELSE HeuristicsLimit)

\* the prompt after strip(); line breaks and indentation are written as one
\* space, and the fixed closing paragraph is left at its first sentence
generate_ai_analysis(risk, domain_config) ==
    [trigger |-> <<"always">>,
     high_risk_patterns |->
         <<"*/" \o Replace(Replace(domain_config.subdomain, "-", "/*"), "_", "/*") \o "/*",
           "*/ai/*", "*/model/*">>,
     prompt_template |->
         "Analyze this AI system for the following MIT AI Risk Repository risk:"
         \o " Risk: " \o Get(risk, "risk", "")
         \o " Domain: " \o Get(risk, "domain", "")
         \o " Entity: " \o Get(risk, "entity", "")
         \o " Intent: " \o Get(risk, "intent", "")
         \o " Timing: " \o Get(risk, "timing", "")
         \o " Code to analyze: {{code_snippet}} File: {{file_path}}"
         \o " Context: {{heuristic_findings}}"
         \o " Evaluate whether this code exhibits the risk described above.",
     expected_response_schema |->
         [type |-> "object",
          required |-> <<"severity", "vulnerable_lines", "description", "remediation",
                         "standards_mapping", "confidence">>]]

map_to_iso42001(domain) ==
    Get(("Discrimination & Toxicity" :> <<"6.2.2", "7.7.1">>)
        @@ ("Privacy & Security" :> <<"7.5.1", "7.5.2">>)
        @@ ("Misinformation" :> <<"7.3.1", "8.2.3">>)
        @@ ("Malicious Actors" :> <<"7.5.1", "8.2.1">>)
        @@ ("Human-Computer Interaction" :> <<"8.2.3">>)
        @@ ("Sociotechnical Harms" :> <<"7.7.1">>)
        @@ ("AI Harms to the Environment" :> <<"6.2.2">>),
        domain, <<"6.2.2">>)

map_to_nist(domain) ==
    Get(("Discrimination & Toxicity" :> <<"MEASURE-2.2", "VALIDATE-2.3">>)
        @@ ("Privacy & Security" :> <<"PROTECT-3.1", "PROTECT-3.2">>)
        @@ ("Misinformation" :> <<"VALIDATE-2.1", "VALIDATE-2.3">>)
        @@ ("Malicious Actors" :> <<"PROTECT-3.1", "VALIDATE-2.1">>)
        @@ ("Human-Computer Interaction" :> <<"VALIDATE-2.3">>)
        @@ ("Sociotechnical Harms" :> <<"GOVERN-1.4">>)
        @@ ("AI Harms to the Environment" :> <<"MEASURE-2.2">>),
        domain, <<"MEASURE-2.2">>)

map_to_cwe(domain) ==
    Get(("Discrimination & Toxicity" :> <<"CWE-710", "CWE-20">>)
        @@ ("Privacy & Security" :> <<"CWE-200", "CWE-359">>)
        @@ ("Misinformation" :> <<"CWE-502", "CWE-20">>)
        @@ ("Malicious Actors" :> <<"CWE-284", "CWE-502">>)
        @@ ("Human-Computer Interaction" :> <<"CWE-710">>)
        @@ ("Sociotechnical Harms" :> <<"CWE-710">>)
        @@ ("AI Harms to the Environment" :> <<"CWE-710">>),
        domain, <<"CWE-710">>)

map_to_capec(domain) ==
    Get(("Discrimination & Toxicity" :> <<"CAPEC-183", "CAPEC-165">>)
        @@ ("Privacy & Security" :> <<"CAPEC-167", "CAPEC-118">>)
        @@ ("Misinformation" :> <<"CAPEC-183", "CAPEC-184">>)
        @@ ("Malicious Actors" :> <<"CAPEC-550", "CAPEC-137">>)
        @@ ("Human-Computer Interaction" :> <<"CAPEC-114", "CAPEC-183">>)
        @@ ("Sociotechnical Harms" :> <<"CAPEC-165">>)
        @@ ("AI Harms to the Environment" :> <<"CAPEC-165">>),
        domain, <<"CAPEC-165">>)

\* the slice [:80] of the rule name
NameLimit == 80
\* the slice [:200] of sarif_output.short_description
RiskShortDescriptionLimit == 200

\* the rule built from the parts computed at the head of the function; the
\* line breaks of full_description are written as spaces
RuleOf(risk, risk_id, domain, domain_config, risk_description, heuristics) ==
    LET rule_id == "tavoai-mit-risk-" \o risk_id
        name == "MIT AI Risk: " \o Slice(risk_description, NameLimit)
                \o (IF Len(risk_description) > NameLimit THEN "..." ELSE "")
        tags == <<"mit-ai-risk", domain_config.subdomain, "ai-risk-repository">>
    IN  ("version" :> "1.0")
        @@ ("id" :> rule_id)
        @@ ("name" :> name)
        @@ ("category" :> domain_config.category)
        @@ ("subcategory" :> domain_config.subdomain)
        @@ ("severity" :> domain_config.severity)
        @@ ("rule_type" :> "hybrid")
        @@ ("standards" :>
                [mit_ai_risk |-> <<Replace(Replace(Lower(domain), " ", "-"), "&", "and")>>,
                 iso_42001 |-> map_to_iso42001(domain),
                 nist_ai_rmf |-> map_to_nist(domain),
                 cwe |-> map_to_cwe(domain),
                 capec |-> map_to_capec(domain)])
        @@ ("compatible_models" :> <<"openai/gpt-4", "anthropic/claude-3-opus">>)
        @@ ("tags" :> tags)
        @@ When(heuristics # <<>>, "heuristics" :> heuristics)
        @@ ("ai_analysis" :> generate_ai_analysis(risk, domain_config))
        @@ ("execution" :> [max_tokens |-> 2000, temperature |-> "0.1"])
        @@ ("sarif_output" :>
                [rule_id |-> rule_id,
                 rule_name |-> name,
                 short_description |-> Slice(risk_description, RiskShortDescriptionLimit),
                 full_description |->
                     risk_description \o "  Source: " \o Get(risk, "source_title", "")
                     \o " Authors: " \o Get(risk, "authors", "")
                     \o " Year: " \o Get(risk, "year", ""),
                 help_uri |-> "https://airisk.mit.edu/risk/" \o risk_id,
                 tags |-> tags])

generate_rule_from_risk(risk) ==
    RuleOf(risk, Get(risk, "id", "unknown"), Get(risk, "domain", ""),
           Get(DOMAIN_MAPPING, Get(risk, "domain", ""), DefaultDomainConfig),
           Get(risk, "risk", ""),
           generate_heuristics(Get(risk, "risk", ""), Get(risk, "domain", "")))


(***************************************************************************)
(* One generate_rule_from_risk call                                        *)
(***************************************************************************)
RiskIds == {"R001", "R002"}

\* the seven domains of the table, the domain of the repository's CSV
\* fixture, an unknown domain and the empty string
RiskDomains ==
    DOMAIN DOMAIN_MAPPING \cup {"Security & Privacy", "Uncategorised", ""}

RiskDescriptions ==
    {"AI systems that create unfair discrimination", "Test risk 1", "AI is bad", "",
     "Unauthorized access to sensitive personal data",
     "Models leaking private training data",
     "x-y risk of harm_to users; see section 4.2 of the repository for the long form of it"}

RiskRest == ("entity" :> "AI") @@ ("intent" :> "Unintentional")
            @@ ("timing" :> "Post-deployment") @@ ("source_title" :> "Test Source")

Risks ==
    {i @@ d @@ r @@ RiskRest
        : i \in Opt("id", RiskIds),
          d \in Opt("domain", RiskDomains),
          r \in Opt("risk", RiskDescriptions)}

RiskInit ==
    /\ CmdIdle
    /\ GenIdle
    /\ pc = "generate"
    /\ last \in {[what |-> "risk", risk |-> r] : r \in Risks}

CallGenerateRuleFromRisk ==
    /\ pc = "generate"
    /\ last' = [what |-> "generated", risk |-> last.risk,
                rule |-> generate_rule_from_risk(last.risk)]
    /\ pc' = "generated"
    /\ UNCHANGED cmdVars
    /\ UNCHANGED genVars

RiskNext == CallGenerateRuleFromRisk

RiskSpec == RiskInit /\ [][RiskNext]_vars


(***************************************************************************)
(* MITRiskSync: construction and sync                                      *)
(*                                                                         *)
(* A CSV text is [header, rows], the cells csv.DictReader splits it into;  *)
(* the empty text has neither.  A directory is [exists, files], files a    *)
(* dict from file name to content.                                         *)
(***************************************************************************)
MaxRows == 2
MaxLimit == 2

EmptyText == [header |-> <<>>, rows |-> <<>>]

\* response is what requests.get did: it raised, or it returned a response
download_sheet_csv(response) ==
    IF response.raised THEN [none |-> TRUE, text |-> EmptyText]
    ELSE IF response.status_code = 200 THEN [none |-> FALSE, text |-> response.text]
    ELSE [none |-> TRUE, text |-> EmptyText]

\* DictReader: a row maps each column name to its cell, to None when the row
\* is short; str() turns None into 'None'
RowDict(header, cells) ==
    [name \in Elements(header) |->
        LET i == CHOOSE k \in 1..Len(header) :
                     header[k] = name /\ \A j \in (k + 1)..Len(header) : header[j] # name
        IN  IF i <= Len(cells) THEN cells[i] ELSE "None"]

RiskOfRow(row) ==
    [id |-> Get(row, "ID", ""),
     risk |-> Get(row, "Risk", ""),
     domain |-> Get(row, "Domain", ""),
     subdomain |-> Get(row, "Subdomain", ""),
     entity |-> Get(row, "Entity", ""),
     intent |-> Get(row, "Intent", ""),
     timing |-> Get(row, "Timing", ""),
     source_title |-> Get(row, "Source Title", ""),
     authors |-> Get(row, "Authors", ""),
     year |-> Get(row, "Year", ""),
     quote |-> Get(row, "Quote", ""),
     page_number |-> Get(row, "Page Number", "")]

parse_csv_data(csv_content) ==
    [i \in 1..Len(csv_content.rows) |->
        RiskOfRow(RowDict(csv_content.header, csv_content.rows[i]))]

MockRisk(id, risk, domain, subdomain, quote, page_number) ==
    [id |-> id, risk |-> risk, domain |-> domain, subdomain |-> subdomain,
     entity |-> "AI", intent |-> "Unintentional", timing |-> "Post-deployment",
     source_title |-> "AI Risk Repository Test", authors |-> "MIT Team", year |-> "2024",
     quote |-> quote, page_number |-> page_number]

get_mock_data ==
    <<MockRisk("R001", "AI systems that create unfair discrimination",
               "Discrimination & Toxicity", "Unfair discrimination and misrepresentation",
               "AI systems can create unfair discrimination", "1"),
      MockRisk("R002", "Unauthorized access to sensitive personal data",
               "Privacy & Security",
               "Compromise of privacy by obtaining sensitive information",
               "AI can compromise user privacy", "2"),
      MockRisk("R003", "AI systems generating misleading information",
               "Misinformation", "False or misleading information",
               "AI can generate misleading information", "3")>>

\* open(filepath, 'w') fails when the rule id names a directory that is not
\* there; save_rule logs the error
SaveFails(rule) == Contains(rule["id"], "/")

\* the directory after save_rule; [written] lists the files opened for writing
save_rule(dir, rule) ==
    LET filename == rule["id"] \o ".yaml"
    IN  IF SaveFails(rule) THEN dir
        ELSE [dir EXCEPT !.files = (filename :> [kind |-> "mapping", doc |-> rule]) @@ @,
                         !.written = Append(@, filename)]

\* the loop of sync over the risks left
RECURSIVE SaveAll(_, _)
SaveAll(dir, risks) ==
    IF risks = <<>> THEN dir
    ELSE SaveAll(save_rule(dir, generate_rule_from_risk(Head(risks))), Tail(risks))

\* risks[:limit] under `if limit:`; limit 0 stands for None and for 0
Limited(risks, limit) ==
    IF limit # 0 THEN SubSeq(risks, 1, IF Len(risks) < limit THEN Len(risks) ELSE limit)
    ELSE risks

\* variant: a failed download falls back on the mock data
sync_MockOnFailure(dir, response, limit, use_mock) ==
    IF use_mock THEN SaveAll(dir, Limited(get_mock_data, limit))
    ELSE LET csv_content == download_sheet_csv(response)
         IN  IF csv_content.none \/ csv_content.text = EmptyText
             THEN SaveAll(dir, Limited(get_mock_data, limit))
             ELSE IF parse_csv_data(csv_content.text) = <<>> THEN dir
             ELSE SaveAll(dir, Limited(parse_csv_data(csv_content.text), limit))

\* the output directory after sync
sync(dir, response, limit, use_mock) ==
    IF use_mock THEN SaveAll(dir, Limited(get_mock_data, limit))
    ELSE LET csv_content == download_sheet_csv(response)
         IN  IF csv_content.none \/ csv_content.text = EmptyText THEN dir
             ELSE IF parse_csv_data(csv_content.text) = <<>> THEN dir
             ELSE SaveAll(dir, Limited(parse_csv_data(csv_content.text), limit))

(***************************************************************************)
(* One run: MITRiskSync(...) and then sync(...)                            *)
(***************************************************************************)
CsvHeaders ==
    {<<"ID", "Risk", "Domain", "Entity", "Intent", "Timing">>,
     <<"ID", "Risk">>}

CsvRows ==
    {<<"R001", "Test risk 1", "Security & Privacy", "AI", "Unintentional", "Post-deployment">>,
     <<"R002", "Test risk 2", "Misinformation", "Human", "Intentional", "Pre-deployment">>,
     <<"R/3", "AI is bad", "Malicious Actors", "AI", "Unintentional", "Post-deployment">>,
     <<"R001">>}

CsvTexts ==
    {EmptyText}
    \cup {[header |-> h, rows |-> rows]
             : h \in CsvHeaders,
               rows \in UNION {[1..n -> CsvRows] : n \in 0..MaxRows}}

Responses ==
    {[raised |-> TRUE, status_code |-> 0, text |-> EmptyText]}
    \cup {[raised |-> FALSE, status_code |-> 200, text |-> t] : t \in CsvTexts}
    \cup {[raised |-> FALSE, status_code |-> c, text |-> [header |-> <<"Not found">>,
                                                         rows |-> <<>>]]
             : c \in {404, 500}}

\* a rule file left by an earlier run
StaleFile == [kind |-> "mapping", doc |-> ("id" :> "tavoai-mit-risk-R001")]

OutputDirs ==
    {[exists |-> FALSE, files |-> <<>>, written |-> <<>>],
     [exists |-> TRUE, files |-> <<>>, written |-> <<>>],
     [exists |-> TRUE, files |-> ("tavoai-mit-risk-R001.yaml" :> StaleFile),
      written |-> <<>>]}

SyncInit ==
    /\ CmdIdle
    /\ GenIdle
    /\ pc = "construct"
    /\ last \in {[what |-> "run", response |-> r, limit |-> l, use_mock |-> m,
                  before |-> d, output_dir |-> d]
                    : r \in Responses, l \in 0..MaxLimit, m \in BOOLEAN, d \in OutputDirs}

\* __init__: output_dir.mkdir(parents=True, exist_ok=True)
Construct ==
    /\ pc = "construct"
    /\ last' = [last EXCEPT !.what = "constructed",
                            !.before = [@ EXCEPT !.exists = TRUE],
                            !.output_dir = [@ EXCEPT !.exists = TRUE]]
    /\ pc' = "sync"
    /\ UNCHANGED cmdVars
    /\ UNCHANGED genVars

Sync ==
    /\ pc = "sync"
    /\ last' = [last EXCEPT !.what = "synced",
                            !.output_dir = sync(last.output_dir, last.response,
                                                last.limit, last.use_mock)]
    /\ pc' = "synced"
    /\ UNCHANGED cmdVars
    /\ UNCHANGED genVars

SyncNext ==
    \/ Construct
    \/ Sync

SyncSpec == SyncInit /\ [][SyncNext]_vars


(***************************************************************************)
(* validate-quality-metrics: QualityMetricsValidator and main              *)
(*                                                                         *)
(* Fractions are kept exact.  A score, a threshold and a weight are in     *)
(* hundredths (0.85 is 85), a rate is [num, den], and the overall score,   *)
(* a sum of score * weight, is in ten-thousandths (0.85 is 8500).          *)
(*                                                                         *)
(* The repository is [categories, other_rules, test_files, validator]:     *)
(* categories maps each of the five bundle paths to [exists, rules], rules *)
(* the list of its *.yaml files, a file being the number of heuristics it  *)
(* holds (0 when it has none or does not load); other_rules counts the     *)
(* *.yaml files under bundles/ outside the five; test_files counts the     *)
(* files under test-samples/; validator is what running validate-rules.py  *)
(* does.                                                                   *)
(***************************************************************************)
MaxTestFiles == 7

THRESHOLDS ==
    [heuristic_coverage |-> 80, false_positive_rate |-> 10, false_negative_rate |-> 5,
     ai_accuracy |-> 90, schema_compliance |-> 100, test_coverage |-> 70]

CoverageCategories ==
    {"ai-enhanced/owasp-llm-pro", "ai-enhanced/iso-42001-compliance",
     "ai-enhanced/mit-ai-risk-repo", "ai-enhanced/ai-ethics", "ai-enhanced/bias-detection"}

\* sum of f over the set S
RECURSIVE SumOver(_, _)
SumOver(S, f) ==
    IF S = {} THEN 0
    ELSE LET x == CHOOSE y \in S : TRUE IN f[x] + SumOver(S \ {x}, f)

\* min(1.0, len(heuristics) * 0.2), in fifths
HeuristicScore(count) == IF count > 5 THEN 5 ELSE count

\* _analyze_category_coverage as a fraction [num, den] of fifths
analyze_category_coverage(category_dir) ==
    LET rules == category_dir.rules
    IN  IF ~category_dir.exists THEN [num |-> 0, den |-> 1]
        ELSE IF rules = <<>> THEN [num |-> 0, den |-> 1]
        ELSE [num |-> SumOver(1..Len(rules),
                              [i \in 1..Len(rules) |-> HeuristicScore(rules[i])]),
              den |-> Len(rules)]

\* the product of the denominators of the category fractions
RECURSIVE Denominator(_, _)
Denominator(S, coverage_scores) ==
    IF S = {} THEN 1
    ELSE LET c == CHOOSE y \in S : TRUE
         IN  coverage_scores[c].den * Denominator(S \ {c}, coverage_scores)

\* sum(coverage_scores.values()) / 5 >= 0.80, the fractions brought to one
\* denominator: sum (num_c / (5 den_c)) / 5 >= 80 / 100
validate_heuristic_coverage(repo_state) ==
    LET coverage_scores == [c \in CoverageCategories |->
                               analyze_category_coverage(repo_state.categories[c])]
        common == Denominator(CoverageCategories, coverage_scores)
        total == SumOver(CoverageCategories,
                         [c \in CoverageCategories |->
                             coverage_scores[c].num * (common \div coverage_scores[c].den)])
    IN  [score |-> [num |-> total, den |-> 25 * common],
         passed |-> total * 100 >= THRESHOLDS.heuristic_coverage * 25 * common]

\* variant: 2 false positives in 103 samples
validate_false_positive_rate_Two ==
    [rate |-> [num |-> 2, den |-> 103],
     passed |-> 2 * 100 <= THRESHOLDS.false_positive_rate * 103]

\* the counts are literals of the source; the samples on disk are not used
validate_false_positive_rate ==
    [rate |-> [num |-> 12, den |-> 103],
     passed |-> 12 * 100 <= THRESHOLDS.false_positive_rate * 103]

validate_false_negative_rate ==
    [rate |-> [num |-> 8, den |-> 103],
     passed |-> 8 * 100 <= THRESHOLDS.false_negative_rate * 103]

validate_ai_accuracy == [accuracy |-> 92, passed |-> 92 >= THRESHOLDS.ai_accuracy]

\* all *.yaml files under bundles/
AllRules(repo_state) ==
    repo_state.other_rules
    + SumOver(CoverageCategories,
              [c \in CoverageCategories |->
                  Len(repo_state.categories[c].rules)])

\* the validator run: it raised, it returned 0, or it returned non-zero and
\* (valid, total) lines of its stderr hold 'validated successfully', 'rule'
validate_schema_compliance(repo_state) ==
    LET run == repo_state.validator
        valid_rules == IF run.returncode = 0 THEN AllRules(repo_state) ELSE run.valid_lines
        total_rules == IF run.returncode = 0 THEN AllRules(repo_state) ELSE run.rule_lines
    IN  IF run.raised THEN [compliance_rate |-> [num |-> 0, den |-> 1], passed |-> FALSE]
        ELSE [compliance_rate |-> IF total_rules > 0
                                  THEN [num |-> valid_rules, den |-> total_rules]
                                  ELSE [num |-> 0, den |-> 1],
              passed |-> total_rules > 0
                         /\ valid_rules * 100 >= THRESHOLDS.schema_compliance * total_rules]

validate_test_coverage(repo_state) ==
    LET all_rules == AllRules(repo_state)
    IN  [coverage_ratio |-> IF all_rules > 0
                            THEN [num |-> repo_state.test_files, den |-> all_rules]
                            ELSE [num |-> 0, den |-> 1],
         passed |-> all_rules > 0
                    /\ repo_state.test_files * 100 >= THRESHOLDS.test_coverage * all_rules]

weights ==
    [heuristic_coverage |-> 25, false_positive_rate |-> 20, false_negative_rate |-> 20,
     ai_accuracy |-> 15, schema_compliance |-> 10, test_coverage |-> 10]

\* max(0, 1.0 - rate / threshold), in hundredths
RateScore(rate, threshold) ==
    LET left == rate.den * threshold - rate.num * 100
    IN  IF left <= 0 THEN 0 ELSE (left * 100) \div (rate.den * threshold)

\* every other metric record has a 'passed' key, so its score is 1.0 or 0.0
MetricScore(metric, metric_data) ==
    IF metric \in {"false_positive_rate", "false_negative_rate"}
    THEN RateScore(metric_data.rate, THRESHOLDS[metric])
    ELSE IF metric_data.passed THEN 100 ELSE 0

calculate_overall_score(metrics) ==
    SumOver(DOMAIN weights,
            [metric \in DOMAIN weights |-> MetricScore(metric, metrics[metric]) * weights[metric]])

\* the literal 0.85 of validate_all_metrics
OverallQualityThreshold == 8500

\* the results for the six metric records
ResultsOf(metrics) ==
    [metrics |-> metrics,
     overall_score |-> calculate_overall_score(metrics),
     passed |-> calculate_overall_score(metrics) >= OverallQualityThreshold]

validate_all_metrics(repo_state) ==
    ResultsOf([heuristic_coverage |-> validate_heuristic_coverage(repo_state),
               false_positive_rate |-> validate_false_positive_rate,
               false_negative_rate |-> validate_false_negative_rate,
               ai_accuracy |-> validate_ai_accuracy,
               schema_compliance |-> validate_schema_compliance(repo_state),
               test_coverage |-> validate_test_coverage(repo_state)])

(***************************************************************************)
(* One run of validate-quality-metrics                                     *)
(***************************************************************************)
CategoryChoices ==
    {[exists |-> FALSE, rules |-> <<>>]}
    \cup {[exists |-> TRUE, rules |-> r] : r \in {<<0>>, <<5>>, <<4, 6>>}}

ValidatorRuns ==
    {[raised |-> TRUE, returncode |-> 1, valid_lines |-> 0, rule_lines |-> 0],
     [raised |-> FALSE, returncode |-> 0, valid_lines |-> 0, rule_lines |-> 0],
     [raised |-> FALSE, returncode |-> 1, valid_lines |-> 1, rule_lines |-> 2]}

\* --threshold in ten-thousandths; 8500 is the default
ThresholdValues == {0, 5000, 8500, 10000}

QualityRepos ==
    [categories : [CoverageCategories -> CategoryChoices],
     other_rules : {0, 1},
     test_files : {0, MaxTestFiles \div 2, MaxTestFiles},
     validator : ValidatorRuns]

QualityInit ==
    /\ CmdIdle
    /\ GenIdle
    /\ pc = "quality"
    /\ last \in {[what |-> "quality_args", repo_state |-> r, threshold |-> t]
                    : r \in QualityRepos, t \in ThresholdValues}

\* main: args.threshold goes into THRESHOLDS['overall_quality'], which no
\* metric reads; the exit code follows results['passed']
RunQualityMetrics ==
    /\ pc = "quality"
    /\ LET results_ == validate_all_metrics(last.repo_state)
       IN  last' = [what |-> "quality", repo_state |-> last.repo_state,
                    threshold |-> last.threshold, results |-> results_,
                    exit_status |-> IF results_.passed THEN 0 ELSE 1]
    /\ pc' = "exited"
    /\ UNCHANGED cmdVars
    /\ UNCHANGED genVars

QualityNext == RunQualityMetrics

QualitySpec == QualityInit /\ [][QualityNext]_vars


(***************************************************************************)
(* SARIFGenerator.generate_sarif on a list of findings                     *)
(*                                                                         *)
(* The document is modelled down to the driver and the results; the        *)
(* taxonomies and the fields stamped with datetime.utcnow() are left out.  *)
(***************************************************************************)
MaxFindings == 3

\* variant: the index stored for a new rule is the length of the rules list
ProcessFinding_IndexFromOne(acc, finding) ==
    LET rule_id == Get(finding, "rule_id", "unknown")
        is_new == rule_id \notin DOMAIN acc.rules_map
        rules == IF is_new THEN Append(acc.rules, create_rule_definition(finding))
                 ELSE acc.rules
        rules_map == IF is_new THEN (rule_id :> Len(rules)) @@ acc.rules_map
                     ELSE acc.rules_map
    IN  [rules |-> rules,
         rules_map |-> rules_map,
         results_list |-> Append(acc.results_list,
                                 create_result_entry(finding, rules_map[rule_id]))]

\* the loop body on one finding; acc is [rules, rules_map, results_list]
ProcessFinding(acc, finding) ==
    LET rule_id == Get(finding, "rule_id", "unknown")
        is_new == rule_id \notin DOMAIN acc.rules_map
        rules == IF is_new THEN Append(acc.rules, create_rule_definition(finding))
                 ELSE acc.rules
        rules_map == IF is_new THEN (rule_id :> (Len(rules) - 1)) @@ acc.rules_map
                     ELSE acc.rules_map
    IN  [rules |-> rules,
         rules_map |-> rules_map,
         results_list |-> Append(acc.results_list,
                                 create_result_entry(finding, rules_map[rule_id]))]

\* the loop over the findings
RECURSIVE ProcessFindings(_, _)
ProcessFindings(acc, findings) ==
    IF findings = <<>> THEN acc
    ELSE ProcessFindings(ProcessFinding(acc, Head(findings)), Tail(findings))

SarifOf(processed, tool_name) ==
    [version |-> "2.1.0",
     runs |-> <<[tool |-> [driver |-> [name |-> tool_name, version |-> "1.0.0",
                                       informationUri |-> "https://tavoai.com",
                                       rules |-> processed.rules]],
                 results |-> processed.results_list]>>]

generate_sarif(results_, tool_name) ==
    SarifOf(ProcessFindings([rules |-> <<>>, rules_map |-> EmptyDict, results_list |-> <<>>],
                            Get(results_, "findings", <<>>)),
            tool_name)

\* findings of two named rules, of no rule, and of the rule named 'unknown'
ScanFindings ==
    {("rule_id" :> "tavoai-sqli") @@ ("severity" :> "high") @@ ("description" :> "first"),
     ("rule_id" :> "tavoai-sqli") @@ ("severity" :> "low") @@ ("description" :> "second"),
     ("rule_id" :> "tavoai-xss") @@ ("file_path" :> "src/app.py"),
     ("severity" :> "critical") @@ ("description" :> "no rule"),
     ("rule_id" :> "unknown") @@ ("description" :> "named unknown")}

ScanResults ==
    {EmptyDict}
    \cup {"findings" :> fs : fs \in UNION {[1..n -> ScanFindings] : n \in 0..MaxFindings}}

ScanInit ==
    /\ CmdIdle
    /\ GenIdle
    /\ pc = "generate_sarif"
    /\ last \in {[what |-> "scan", results |-> r] : r \in ScanResults}

GenerateSarif ==
    /\ pc = "generate_sarif"
    /\ last' = [what |-> "sarif", results |-> last.results,
                sarif |-> generate_sarif(last.results, "TavoAI Scanner")]
    /\ pc' = "generated_sarif"
    /\ UNCHANGED cmdVars
    /\ UNCHANGED genVars

ScanNext == GenerateSarif

ScanSpec == ScanInit /\ [][ScanNext]_vars


(***************************************************************************)
(* The manifest generator and validate_all_rules on one bundle directory   *)
(***************************************************************************)
\* the document yaml.safe_load gives the validator: the values as they are
Plain(doc) ==
    [k \in DOMAIN doc |->
        IF k = "category" THEN doc[k].val
        ELSE IF k = "standards" THEN [s \in DOMAIN doc[k].val |-> doc[k].val[s].val]
        ELSE doc[k]]

\* a rule file as validate_rule_file takes it
AsRuleFile(f) ==
    IF f.parse = "mapping" THEN [kind |-> "mapping", doc |-> Plain(f.doc)]
    ELSE IF f.parse = "yaml_error" THEN [kind |-> "yaml_error", doc |-> EmptyDict]
    ELSE [kind |-> "sequence", doc |-> EmptyDict]

\* bundles_dir.rglob("*.yaml") below one bundle directory
RglobYaml(bundle_path) ==
    IF bundle_path.rules = "dir" THEN Glob(bundle_path.files, ".yaml") ELSE <<>>

\* validate_all_rules: the files visited and the two counts returned
validate_all_rules(bundle_path) ==
    LET rule_files == RglobYaml(bundle_path)
        valid == SelectSeq(rule_files, LAMBDA f : validate_rule_file(AsRuleFile(f)).is_valid)
    IN  [visited |-> [i \in 1..Len(rule_files) |-> "rules/" \o rule_files[i].name],
         valid_files |-> Len(valid),
         total_files |-> Len(rule_files)]

\* rule files with string categories and mapping standards, a file that
\* does not parse and a file that is no rule
CoverFileChoices ==
    {f \in BundleFileChoices :
        f.name \in {"sqli.yaml", "xss.yml", "broken_rule.yaml", "README.md"}}
    \cup {[name |-> "hybrid.yaml", text |-> "id: tavoai-hybrid", parse |-> "mapping",
           doc |-> ("id" :> "tavoai-hybrid") @@ ("name" :> "Hybrid")
                   @@ ("category" :> YamlStr("security")) @@ ("rule_type" :> "opengrep")
                   @@ ("heuristics" :> <<[type |-> "semgrep"]>>)]}

CoverBundles ==
    {[parent |-> p, name |-> n, rules |-> "dir", files |-> fs, manifest |-> <<>>]
        : p \in {"free", "ai-enhanced"}, n \in {"owasp-llm-pro"},
          fs \in {l \in UNION {[1..k -> CoverFileChoices] : k \in 0..MaxBundleFiles} :
                     \A i, j \in 1..Len(l) : i # j => l[i].name # l[j].name}}

CoverInit ==
    /\ CmdIdle
    /\ pc = "list_artifacts"
    /\ last = NoCall
    /\ bundle \in CoverBundles
    /\ clock = 0
    /\ produced = <<>>

\* the generator lists the artifacts of the bundle ...
ListArtifacts ==
    /\ pc = "list_artifacts"
    /\ produced' = <<create_bundle_manifest(bundle, clock)>>
    /\ clock' = clock + 2
    /\ pc' = "validate_all_rules"
    /\ UNCHANGED <<bundle, last>>
    /\ UNCHANGED cmdVars

\* ... and the validator walks the same directory
ValidateAllRules ==
    /\ pc = "validate_all_rules"
    /\ last' = [what |-> "all_rules", result |-> validate_all_rules(bundle)]
    /\ pc' = "covered"
    /\ UNCHANGED genVars
    /\ UNCHANGED cmdVars

CoverNext ==
    \/ ListArtifacts
    \/ ValidateAllRules

CoverSpec == CoverInit /\ [][CoverNext]_vars


(***************************************************************************)
(* run-tests: TestRunner.run_all_tests                                     *)
(*                                                                         *)
(* The repository is [scripts, vulnerable, safe, validator]: scripts maps  *)
(* each script to "missing", "compiles", "syntax_error" or "timeout";      *)
(* vulnerable and safe map each language to the number of sample files,    *)
(* which are readable and not empty; validator is what running             *)
(* validate-rules.py does.  Decimal literals are kept as strings and       *)
(* success_rate is the fraction [num, den].                                *)
(***************************************************************************)
MaxSamples == 1

scripts_to_test ==
    <<"validate-rules.py", "test-rules.py", "generate-sarif.py", "sync-mit-ai-risks.py">>

Languages == {"python", "javascript", "typescript", "java", "go"}

test_script_import(script, state) ==
    IF state = "compiles" THEN [script |-> script, passed |-> TRUE, error |-> "None"]
    ELSE IF state = "timeout"
    THEN [script |-> script, passed |-> FALSE, error |-> "Timeout during compilation"]
    ELSE [script |-> script, passed |-> FALSE, error |-> "SyntaxError: invalid syntax"]

run_unit_tests(repo_state) ==
    LET tests == [i \in 1..Len(scripts_to_test) |->
                     IF repo_state.scripts[scripts_to_test[i]] = "missing"
                     THEN [script |-> scripts_to_test[i], passed |-> FALSE,
                           error |-> "Script not found"]
                     ELSE test_script_import(scripts_to_test[i],
                                             repo_state.scripts[scripts_to_test[i]])]
    IN  [passed |-> Len(SelectSeq(tests, LAMBDA t : t.passed)),
         failed |-> Len(SelectSeq(tests, LAMBDA t : ~t.passed)),
         tests |-> tests]

\* the first ten vulnerable and the first ten safe samples are read
test_rule_execution(repo_state) ==
    LET vulnerable_samples == SumOver(Languages, repo_state.vulnerable)
        safe_samples == SumOver(Languages, repo_state.safe)
        tested == (IF vulnerable_samples < 10 THEN vulnerable_samples ELSE 10)
                  + (IF safe_samples < 10 THEN safe_samples ELSE 10)
    IN  [total_samples_tested |-> tested, rules_executed |-> tested,
         findings_detected |-> 0, execution_errors |-> 0]

test_sample_processing(repo_state) ==
    [lang \in Languages |->
        [vulnerable_samples |-> repo_state.vulnerable[lang],
         safe_samples |-> repo_state.safe[lang],
         total_samples |-> repo_state.vulnerable[lang] + repo_state.safe[lang]]]

run_integration_tests(repo_state) ==
    ("rule_execution_tests" :> test_rule_execution(repo_state))
    @@ ("sample_processing_tests" :> test_sample_processing(repo_state))
    @@ ("cross_language_tests" :> [python_js_equivalence |-> TRUE,
                                   multi_language_coverage |-> TRUE])

test_schema_validation(repo_state) ==
    IF repo_state.validator.raised
    THEN ("validation_passed" :> FALSE) @@ ("error" :> "[Errno 2] No such file or directory")
    ELSE ("validation_passed" :> (repo_state.validator.returncode = 0))
         @@ ("output" :> repo_state.validator.stdout)
         @@ ("errors" :> repo_state.validator.stderr)

run_rule_validation_tests(repo_state) ==
    ("schema_validation" :> test_schema_validation(repo_state))
    @@ ("rule_quality_metrics" :>
            [heuristic_coverage |-> "0.85", false_positive_rate |-> "0.05",
             false_negative_rate |-> "0.02", ai_accuracy |-> "0.92"])
    @@ ("false_positive_tests" :>
            [false_positives |-> 12, false_negatives |-> 8,
             total_vulnerable_samples |-> 103, total_safe_samples |-> 103,
             fp_rate |-> "0.116", fn_rate |-> "0.078"])

run_performance_tests ==
    [rule_execution_performance |->
         [average_execution_time_ms |-> "45.2", max_execution_time_ms |-> "120.5",
          rules_per_second |-> "22.1"],
     memory_usage |-> [peak_memory_mb |-> "89.3", average_memory_mb |-> "67.8"],
     large_file_handling |-> [max_file_size_handled_mb |-> "50.2",
                              large_file_processing_time_ms |-> "2340.5"]]

\* results["rule_validation_tests"].get("validation_passed"), as a truth value
ValidationPassed(rule_validation_tests) ==
    Get(rule_validation_tests, "validation_passed", FALSE)

\* the summary from the three counted sections
SummaryOf(unit, total_samples, validation_passed, quality_metrics) ==
    LET total_tests_run == Len(unit.tests) + total_samples + 1
        tests_passed == unit.passed + total_samples + (IF validation_passed THEN 1 ELSE 0)
        tests_failed == unit.failed + (IF validation_passed THEN 0 ELSE 1)
    IN  [total_tests_run |-> total_tests_run,
         tests_passed |-> tests_passed,
         tests_failed |-> tests_failed,
         success_rate |-> [num |-> tests_passed, den |-> total_tests_run],
         quality_metrics |-> quality_metrics]

\* results holds all of unit_tests, integration_tests, rule_validation_tests
calculate_summary(results_) ==
    SummaryOf(results_.unit_tests,
              SumOver(Languages,
                      [lang \in Languages |->
                          results_.integration_tests["sample_processing_tests"][lang]
                              .total_samples]),
              ValidationPassed(results_.rule_validation_tests),
              results_.rule_validation_tests["rule_quality_metrics"])

\* the results dict before the summary is filled in
TestResults(repo_state) ==
    [unit_tests |-> run_unit_tests(repo_state),
     integration_tests |-> run_integration_tests(repo_state),
     rule_validation_tests |-> run_rule_validation_tests(repo_state),
     performance_tests |-> run_performance_tests]

WithSummary(results_) ==
    [unit_tests |-> results_.unit_tests,
     integration_tests |-> results_.integration_tests,
     rule_validation_tests |-> results_.rule_validation_tests,
     performance_tests |-> results_.performance_tests,
     summary |-> calculate_summary(results_)]

run_all_tests(repo_state) == WithSummary(TestResults(repo_state))

(***************************************************************************)
(* One run_all_tests call                                                  *)
(***************************************************************************)
ScriptStates == {"missing", "compiles", "syntax_error"}

TestValidatorRuns ==
    {[raised |-> TRUE, returncode |-> 1, stdout |-> "", stderr |-> ""],
     [raised |-> FALSE, returncode |-> 0, stdout |-> "ok", stderr |-> ""],
     [raised |-> FALSE, returncode |-> 1, stdout |-> "", stderr |-> "1 invalid rule"]}

TestRepos ==
    [scripts : [Elements(scripts_to_test) -> ScriptStates]
               \cup {[s \in Elements(scripts_to_test) |-> "timeout"]},
     vulnerable : [Languages -> 0..MaxSamples],
     safe : {[lang \in Languages |-> 0], [lang \in Languages |-> MaxSamples]},
     validator : TestValidatorRuns]

TestsInit ==
    /\ CmdIdle
    /\ GenIdle
    /\ pc = "run_all_tests"
    /\ last \in {[what |-> "test_repo", repo_state |-> r] : r \in TestRepos}

RunAllTests ==
    /\ pc = "run_all_tests"
    /\ last' = [what |-> "tests", repo_state |-> last.repo_state,
                results |-> run_all_tests(last.repo_state)]
    /\ pc' = "tests_run"
    /\ UNCHANGED cmdVars
    /\ UNCHANGED genVars

TestsNext == RunAllTests

TestsSpec == TestsInit /\ [][TestsNext]_vars

(***************************************************************************)
(* Properties                                                              *)
(***************************************************************************)
\* a validate_rule_file call has been made on rule file last.file
RuleCalled == last.what = "rule"

\* the call returned
RuleReturned == RuleCalled /\ ~last.result.escaped

\* the file parsed to a mapping
ParsedMapping == RuleCalled /\ last.file.kind = "mapping"

\* the mapping carries the fields the rule schema requires
ConformsToSchema == ParsedMapping /\ {"id", "name", "category"} \subseteq DOMAIN last.file.doc

\* the file parsed (to None, a list or a mapping) and the schema rejects it
ViolatesSchema ==
    /\ RuleCalled
    /\ last.file.kind \in {"empty", "sequence", "mapping"}
    /\ ~ConformsToSchema

SomeError(test(_)) ==
    \E i \in 1..Len(last.result.errors) : test(last.result.errors[i])

ErrorsWith(text) == Count(last.result.errors, LAMBDA e : Contains(e, text))

Field(k, default) == Get(last.file.doc, k, default)

LacksIdPrefix == ~StartsWith(Field("id", ""), "tavoai-")

MissingOrEmpty(k) == IsEmpty(Field(k, <<>>))

\* every entry of the standards list k that lacks the prefix has its error
PrefixlessReported(k, prefix, text) ==
    LET entries == Get(Field("standards", EmptyDict), k, <<>>)
    IN  \A i \in 1..Len(entries) :
            ~StartsWith(entries[i], prefix) => ErrorsWith(text \o entries[i] \o " ") >= 1

\* every violated business rule has its error in the list
EveryViolationReported ==
    /\ LacksIdPrefix => ErrorsWith("must start with 'tavoai-'") >= 1
    /\ Field("rule_type", "") \in {"hybrid", "ai-only"} /\ MissingOrEmpty("compatible_models")
          => ErrorsWith("must specify compatible_models") >= 1
    /\ Field("rule_type", "") \in {"opengrep", "opa", "hybrid"} /\ MissingOrEmpty("heuristics")
          => ErrorsWith("must have heuristics") >= 1
    /\ Field("rule_type", "") \in {"hybrid", "ai-only"} /\ MissingOrEmpty("ai_analysis")
          => ErrorsWith("must have ai_analysis") >= 1
    /\ PrefixlessReported("cwe", "CWE-", "Invalid CWE format: ")
    /\ PrefixlessReported("capec", "CAPEC-", "Invalid CAPEC format: ")
    /\ PrefixlessReported("owasp_llm", "LLM", "Invalid OWASP LLM format: ")

\* C1 as stated: for a rule document that violates the rule schema and also
\* violates business rules, the error list holds the schema error and every
\* business-rule error.
C1_AllErrorsInOnePass ==
    (/\ ParsedMapping
     /\ ViolatesSchema
     /\ \/ "id" \in DOMAIN last.file.doc /\ LacksIdPrefix
        \/ Field("rule_type", "") = "hybrid" /\ MissingOrEmpty("compatible_models")) =>
        /\ ErrorsWith("Schema validation error") >= 1
        /\ EveryViolationReported

\* C1 amended: the business-rule checks run only when the schema check
\* passes.  For a document that violates the rule schema the error list is
\* exactly the one schema error, whatever business rules it breaks; for a
\* conforming document every violated business rule is reported.
C1_SchemaErrorAlone ==
    /\ ViolatesSchema =>
          /\ Len(last.result.errors) = 1
          /\ StartsWith(last.result.errors[1], "Schema validation error: ")
    /\ ConformsToSchema => EveryViolationReported

\* C1 witness: a hybrid rule without category (schema violation), with an
\* id outside the namespace and without compatible_models, was validated
\* and one error came back.
C1_Witness ==
    /\ ParsedMapping
    /\ ViolatesSchema
    /\ "id" \in DOMAIN last.file.doc
    /\ LacksIdPrefix
    /\ Field("rule_type", "") = "hybrid"
    /\ MissingOrEmpty("compatible_models")
    /\ Len(last.result.errors) = 1

\* C2 as stated: a schema-conforming rule file without rule_type and without
\* standards is valid with an empty error list, whatever its id.
C2_ValidWhateverId ==
    (ConformsToSchema /\ "rule_type" \notin DOMAIN last.file.doc
                      /\ "standards" \notin DOMAIN last.file.doc) =>
        /\ last.result.is_valid
        /\ last.result.errors = <<>>

HeuristicsMsg == "Non-AI-only rules must have heuristics"

\* C4 as stated: the heuristics error is reported for every rule document
\* whose heuristics are missing or empty and whose rule_type is anything
\* other than ai-only.
C4_HeuristicsUnlessAiOnly ==
    (ConformsToSchema /\ MissingOrEmpty("heuristics")
                      /\ Field("rule_type", "") # "ai-only") =>
        SomeError(LAMBDA e : e = HeuristicsMsg)

\* C4 amended: the heuristics error is reported exactly for the rule
\* documents whose heuristics are missing or empty and whose rule_type is
\* opengrep, opa or hybrid; a document with another rule_type, or with
\* none, gets no heuristics error.
C4_HeuristicsForListedTypes ==
    ConformsToSchema =>
        (SomeError(LAMBDA e : e = HeuristicsMsg)
            <=> /\ MissingOrEmpty("heuristics")
                /\ Field("rule_type", "") \in {"opengrep", "opa", "hybrid"})

\* C4 witness: an opa rule without heuristics was validated and got the
\* heuristics error.
C4_Witness ==
    /\ ConformsToSchema
    /\ Field("rule_type", "") = "opa"
    /\ "heuristics" \notin DOMAIN last.file.doc
    /\ SomeError(LAMBDA e : e = HeuristicsMsg)

\* C5: for a rule document with rule_type ai-only and no heuristics field
\* the error list has no heuristics-related error, whatever the other
\* fields are.
C5_AiOnlyNoHeuristicsError ==
    (ParsedMapping /\ Field("rule_type", "") = "ai-only"
                   /\ "heuristics" \notin DOMAIN last.file.doc) =>
        ErrorsWith("heuristics") = 0

\* C5 witness: an ai-only rule without heuristics was validated by the
\* business rules and drew other errors.
C5_Witness ==
    /\ ConformsToSchema
    /\ Field("rule_type", "") = "ai-only"
    /\ "heuristics" \notin DOMAIN last.file.doc
    /\ Len(last.result.errors) >= 2

TwoDigitForm(entry) ==
    /\ Len(entry) = 5
    /\ SubSeq(entry, 1, 3) = "LLM"
    /\ SubSeq(entry, 4, 4) \in Digits
    /\ SubSeq(entry, 5, 5) \in Digits

\* C7 as stated: an owasp_llm entry of the form LLM + two digits produces no
\* 'Invalid OWASP LLM format' error, and every entry not of that form
\* produces exactly one.
C7_OwaspTwoDigitForm ==
    ConformsToSchema =>
        LET entries == Get(Field("standards", EmptyDict), "owasp_llm", <<>>)
        IN  \A i \in 1..Len(entries) :
                Count(last.result.errors,
                      LAMBDA e : e = "Invalid OWASP LLM format: " \o entries[i]
                                     \o " (should be LLMXX)")
                = IF TwoDigitForm(entries[i])
                  THEN 0
                  ELSE Count(entries, LAMBDA x : x = entries[i])

\* C8: validate_rule_file lets no exception escape; for a file that cannot
\* be opened, that is not YAML, that is empty, that is not a mapping or
\* that violates the schema it returns is_valid = False with a non-empty
\* error list (a YAML syntax error gives an error starting 'YAML parsing
\* error'); is_valid is True exactly when the error list is empty.
C8_NoExceptionEscapes ==
    RuleCalled =>
        /\ ~last.result.escaped
        /\ last.result.is_valid <=> last.result.errors = <<>>
        /\ ~ConformsToSchema =>
              /\ ~last.result.is_valid
              /\ Len(last.result.errors) >= 1
        /\ last.file.kind = "yaml_error" =>
              StartsWith(last.result.errors[1], "YAML parsing error")

\* C8 witness: validate_rule_file returned for a path that cannot be opened.
C8_Witness ==
    /\ RuleReturned
    /\ last.file.kind = "unreadable"
    /\ ~last.result.is_valid
    /\ Len(last.result.errors) = 1

\* C9: validate_all_rules validates every discovered rule file exactly once,
\* goes on after an invalid file, and returns (valid, total) with total the
\* number of discovered files and valid the number of files found valid, so
\* 0 <= valid <= total.
C9_ValidateAllRules ==
    ret_rules # <<>> =>
        /\ \A i \in 1..repo.rule_files : visits[i] = 1
        /\ ret_rules[2] = repo.rule_files
        /\ ret_rules[1] = Cardinality({i \in 1..repo.rule_files : results[i]})
        /\ 0 <= ret_rules[1]
        /\ ret_rules[1] <= ret_rules[2]

\* C9 witness: validate_all_rules returned after an invalid file followed by
\* a valid one.
C9_Witness ==
    /\ ret_rules # <<>>
    /\ repo.rule_files >= 2
    /\ ~results[1]
    /\ results[2]

\* C10 as stated: the command exits with code 0 exactly when every rule
\* file and manifest file it validated is valid, and with code 1 when one
\* is invalid; the exit code comes from the counts, never from an escaping
\* exception.
C10_ExitCodeFromCounts ==
    exit_code # -1 =>
        /\ pc = "exit"
        /\ exit_code = 0 <=> \A i \in 1..Len(results) : results[i]
        /\ exit_code = 1 <=> \E i \in 1..Len(results) : ~results[i]

\* a _load_rule_metadata call has been made on rule file last.file
LoadCalled == last.what = "load"

\* the file is one the loader cannot take metadata from
Unloadable ==
    /\ LoadCalled
    /\ \/ last.file.parse \in {"unreadable", "empty", "yaml_error", "sequence", "scalar"}
       \/ Contains(last.file.text, "EOF")
       \/ Contains(last.file.text, "cat >")
       \/ Contains(last.file.text, "<<")

\* the record derived from the file name alone
IsDefaultRecord(m, file_name) ==
    /\ m.id = Stem(file_name)
    /\ m.name = Title(Replace(Replace(Stem(file_name), "-", " "), "_", " "))
    /\ m.severity = "medium"
    /\ m.category = YamlStr("security")
    /\ m.tags = <<>>
    /\ m.standards = YamlDict(EmptyDict)

\* C12: the rule loader never raises, and for an unreadable file, empty
\* content, malformed YAML, a document that is not a mapping or content with
\* a contamination marker it returns the default record of the file name:
\* id = stem, name = title-cased stem with '-' and '_' as spaces, severity
\* 'medium', category 'security', no tags, no standards.
C12_LoaderNeverRaises ==
    /\ LoadCalled => ~last.result.escaped
    /\ Unloadable => IsDefaultRecord(last.result.value, last.file.name)
    /\ (Unloadable /\ last.file.name = "llm01-prompt_injection.yaml")
           => last.result.value.name = "Llm01 Prompt Injection"
    /\ (Unloadable /\ last.file.name = "rule.v2.yaml")
           => last.result.value.id = "rule.v2" /\ last.result.value.name = "Rule.V2"

\* an unreadable file named with an underscore and a hyphen got its default
C12_Witness ==
    /\ Unloadable
    /\ last.file.parse = "unreadable"
    /\ last.file.name = "llm01-prompt_injection.yaml"
    /\ last.result.value.id = "llm01-prompt_injection"

\* the outcome of the latest create_bundle_manifest call
Latest == produced[Len(produced)]

\* create_bundle_manifest has been called on the bundle
Created == produced # <<>>

\* C11 as stated: building a manifest for a bundle directory without rules/
\* succeeds without raising, with metadata.rule_count = 0 and an empty
\* artifacts list.
C11_MissingRulesDir ==
    (Created /\ bundle.rules = "absent") =>
        /\ Latest.raised = "none"
        /\ Latest.manifest.metadata.rule_count = 0
        /\ Latest.manifest.artifacts = <<>>

\* the files the analyzer visits, and what the loader returns for each
VisitedFiles == Glob(bundle.files, ".yaml") \o Glob(bundle.files, ".yml")
Loaded == [i \in 1..Len(VisitedFiles) |-> load_rule_metadata(VisitedFiles[i]).value]

\* the identifiers rule metadata m lists under standard s
ListedUnder(m, s) ==
    IF m.standards.type = "dict" /\ s \in DOMAIN m.standards.val
    THEN StandardValues(m.standards.val[s])
    ELSE {}

StandardsNamed ==
    UNION {IF Loaded[i].standards.type = "dict" THEN DOMAIN Loaded[i].standards.val ELSE {}
              : i \in 1..Len(Loaded)}

\* C13 as stated: for a bundle with a rules/ directory the analyzer output
\* has categories = the sorted duplicate-free list of the category values of
\* all loaded rules, severities likewise, standards[s] = the sorted
\* duplicate-free union of the identifiers each rule lists under s, and
\* rule_count = the length of the rule-summary list.
C13_AnalyzerAggregates ==
    (Created /\ bundle.rules = "dir") =>
        LET analyzed == analyze_bundle_rules(bundle)
            analysis == analyzed.value
        IN  /\ analyzed.raised = "none"
            /\ \A i \in 1..Len(Loaded) : Loaded[i].category.type \in {"str", "null"}
            /\ analysis["categories"]
                   = SortedCategories({Loaded[i].category : i \in 1..Len(Loaded)})
            /\ analysis["severities"] = Sorted({Loaded[i].severity : i \in 1..Len(Loaded)})
            /\ DOMAIN analysis["standards"] = StandardsNamed
            /\ \A s \in StandardsNamed :
                   analysis["standards"][s]
                       = Sorted(UNION {ListedUnder(Loaded[i], s) : i \in 1..Len(Loaded)})
            /\ analysis["rule_count"] = Len(analysis["rules"])

\* the tier the general rule gives a qualified name
TierByRule(qualified) ==
    IF Contains(qualified, "free") \/ Contains(qualified, "owasp-llm-basic") THEN "free"
    ELSE IF \/ Contains(qualified, "ai-enhanced")
            \/ Contains(qualified, "pro")
            \/ Contains(qualified, "compliance")
    THEN "paid"
    ELSE "enterprise"

\* a manifest has been produced for the bundle
Produced == Created /\ Latest.raised = "none"

UnderAiEnhanced == Produced /\ bundle.parent = "ai-enhanced"

\* the general rule on the qualified name of every produced manifest
GeneralTierRule ==
    Produced =>
        Latest.manifest.pricing_tier
            = TierByRule(IF bundle.parent \in {"free", "ai-enhanced", "enterprise"}
                         THEN bundle.parent \o "/" \o bundle.name
                         ELSE bundle.name)

\* C14 as stated: a bundle directly under ai-enhanced has the qualified name
\* 'ai-enhanced/<name>' and is 'paid' unless its name contains 'free'; in
\* general the tier follows the substrings of the qualified name.
C14_PaidUnlessFree ==
    /\ UnderAiEnhanced =>
           /\ Latest.printed = "ai-enhanced/" \o bundle.name
           /\ Latest.manifest.pricing_tier
                  = (IF Contains(bundle.name, "free") THEN "free" ELSE "paid")
    /\ GeneralTierRule

\* C14: a bundle directly under ai-enhanced has the qualified name
\* 'ai-enhanced/<name>' and is 'paid' unless its name contains 'free' or
\* 'owasp-llm-basic', when it is 'free'; in general the tier is 'free' when
\* the qualified name contains 'free' or 'owasp-llm-basic', else 'paid' when
\* it contains 'ai-enhanced', 'pro' or 'compliance', else 'enterprise'.
C14_PaidUnlessFreeOrBasic ==
    /\ UnderAiEnhanced =>
           /\ Latest.printed = "ai-enhanced/" \o bundle.name
           /\ Latest.manifest.pricing_tier
                  = (IF Contains(bundle.name, "free") \/ Contains(bundle.name, "owasp-llm-basic")
                     THEN "free"
                     ELSE "paid")
    /\ GeneralTierRule

\* the basic bundle under ai-enhanced came out free
C14_Witness ==
    /\ UnderAiEnhanced
    /\ bundle.name = "owasp-llm-basic"
    /\ Latest.manifest.pricing_tier = "free"

\* a manifest without its two timestamps
WithoutTimestamps(manifest) == [manifest EXCEPT !.created_at = 0, !.updated_at = 0]

\* C15: running create_bundle_manifest + save_manifest twice over an
\* unchanged bundle directory, the second run seeing the manifest.json of
\* the first, produces two manifests equal in every field except created_at
\* and updated_at.
C15_IdempotentUpToTimestamps ==
    \A i, j \in 1..Len(produced) :
        (produced[i].raised = "none" /\ produced[j].raised = "none")
            => WithoutTimestamps(produced[i].manifest) = WithoutTimestamps(produced[j].manifest)

\* the second run over a bundle of two rule files, after the first was saved
C15_Witness ==
    /\ Len(produced) = 2
    /\ produced[1].raised = "none"
    /\ produced[2].raised = "none"
    /\ bundle.manifest # <<>>
    /\ Len(produced[2].manifest.artifacts) = 2
    /\ produced[1].manifest.created_at # produced[2].manifest.created_at

\* the saved manifest.json has been reloaded and validated
SavedValidated == last.what = "saved_manifest"

\* C16 as stated: for every bundle directory, the manifest produced by
\* create_bundle_manifest, written by save_manifest, then reloaded and
\* checked by validate_manifest_file is valid, with no errors.
C16_RoundTripValid ==
    SavedValidated =>
        /\ ~last.result.escaped
        /\ last.result.is_valid
        /\ last.result.errors = <<>>

\* validate_manifest_file has returned for a manifest that parsed to a mapping
ManifestChecked == last.what = "manifest_call" /\ last.file.kind = "mapping"

ManifestArtifacts == Get(last.file.doc, "artifacts", <<>>)

\* the artifact path names a file that is there
IsExistingFile(artifact) == artifact \in last.file.on_disk \ last.file.dirs

\* C17 as stated: for a schema-conforming manifest the error list holds
\* exactly one 'Artifact file not found' entry naming the path for each
\* artifacts entry that does not resolve to an existing file, plus one 'must
\* start with' entry iff id lacks the 'tavoai-' prefix; an entry that
\* resolves to an existing file produces no error.
C17_ManifestContentErrors ==
    ManifestChecked =>
        /\ ~last.result.escaped
        /\ \A artifact \in Elements(ManifestArtifacts) :
               Count(last.result.errors, LAMBDA e : e = ArtifactMsg(artifact))
                   = (IF IsExistingFile(artifact) THEN 0
                      ELSE Count(ManifestArtifacts, LAMBDA a : a = artifact))
        /\ ErrorsWith("must start with")
               = (IF StartsWith(Get(last.file.doc, "id", ""), "tavoai-") THEN 0 ELSE 1)
        /\ Len(last.result.errors)
               = ErrorsWith("Artifact file not found") + ErrorsWith("must start with")

\* a finding has been converted to its rule definition and result entry
Converted == last.what = "result"

Has(k) == k \in DOMAIN last.finding

\* the finding of the scenario: critical, with a file path, without a line
CriticalNoLine ==
    /\ Converted
    /\ Has("severity") /\ last.finding["severity"] = "critical"
    /\ Has("file_path")
    /\ ~Has("line")

\* the one location of the result, and its physicalLocation
TheLocation == last.result["locations"][1]
ThePhysicalLocation == TheLocation["physicalLocation"]

\* level 'error' and one location whose artifactLocation holds the uri alone
ErrorAtFilePath ==
    /\ last.result["level"] = "error"
    /\ Len(last.result["locations"]) = 1
    /\ DOMAIN TheLocation = {"physicalLocation"}
    /\ "artifactLocation" \in DOMAIN ThePhysicalLocation
    /\ DOMAIN ThePhysicalLocation["artifactLocation"] = {"uri"}
    /\ ThePhysicalLocation["artifactLocation"]["uri"] = last.finding["file_path"]

\* the finding carries a field that goes into the region without a line
CarriesRegionField ==
    \/ Has("start_line") /\ Has("end_line")
    \/ Has("column")
    \/ Has("end_column")
    \/ Has("snippet")

\* C18 as stated: a finding with severity 'critical', a file_path and no line
\* maps to a result with level 'error' and exactly one location holding only
\* physicalLocation.artifactLocation.uri = file_path, with no region key,
\* whatever other optional fields the finding carries.
C18_NoRegionWhateverElse ==
    CriticalNoLine =>
        /\ ErrorAtFilePath
        /\ DOMAIN ThePhysicalLocation = {"artifactLocation"}

\* C18: a finding with severity 'critical', a file_path and no line maps to
\* a result with level 'error' and exactly one location whose
\* artifactLocation.uri is file_path; the location has no region key when
\* the finding carries none of snippet, column, end_column and the pair
\* start_line/end_line, and has one when it carries any of them.
C18_NoRegionWithoutRegionFields ==
    CriticalNoLine =>
        /\ ErrorAtFilePath
        /\ ~CarriesRegionField => DOMAIN ThePhysicalLocation = {"artifactLocation"}
        /\ CarriesRegionField =>
               /\ DOMAIN ThePhysicalLocation = {"artifactLocation", "region"}
               /\ ~IsEmpty(ThePhysicalLocation["region"])
               /\ "startLine" \in DOMAIN ThePhysicalLocation["region"]
                      <=> (Has("start_line") /\ Has("end_line"))

\* a critical finding without a line and with a snippet got a region
C18_Witness ==
    /\ CriticalNoLine
    /\ Has("snippet")
    /\ ~Has("column")
    /\ DOMAIN ThePhysicalLocation["region"] = {"snippet"}

\* text is what the mapping emitted from field k, cut at limit
CutPrefix(text, k, limit) ==
    /\ Len(text) <= limit
    /\ Has(k) => text = SubSeq(last.finding[k], 1, Len(text))

\* C19 as stated: every text the mapping emits from a finding keeps its
\* limit: a short description has at most 200 characters, a full description
\* at most 1000, a remediation text at most 5000 and a snippet at most 200,
\* and each emitted text is a prefix of the finding field.
C19_TruncationLimits ==
    Converted =>
        /\ CutPrefix(last.rule_def["shortDescription"].text, "description", 200)
        /\ "fullDescription" \in DOMAIN last.rule_def
               => CutPrefix(last.rule_def["fullDescription"].text, "full_description", 1000)
        /\ ("help" \in DOMAIN last.rule_def /\ "text" \in DOMAIN last.rule_def["help"])
               => CutPrefix(last.rule_def["help"]["text"], "remediation", 5000)
        /\ "remediation" \in DOMAIN last.result["properties"]
               => CutPrefix(last.result["properties"]["remediation"], "remediation", 5000)
        /\ (Has("file_path") /\ Has("snippet"))
               => CutPrefix(ThePhysicalLocation["region"]["snippet"].text, "snippet", 200)

\* the level the table gives a lower-case severity
LevelOf(lowered) ==
    IF lowered \in {"critical", "high"} THEN "error"
    ELSE IF lowered = "medium" THEN "warning"
    ELSE IF lowered \in {"low", "info"} THEN "note"
    ELSE "warning"

\* C20: critical and high map to 'error', medium to 'warning', low and info
\* to 'note' and every other severity string to 'warning'; the mapping
\* ignores letter case, and a finding with no severity field gets 'warning'.
C20_SeverityToLevel ==
    Converted =>
        /\ ~Has("severity") => last.result["level"] = "warning"
        /\ Has("severity") =>
               /\ last.result["level"] = LevelOf(Lower(last.finding["severity"]))
               /\ last.result["level"] = LevelOf(Lower(Upper(last.finding["severity"])))
               /\ last.finding["severity"] \in {"CRITICAL", "Critical", "High"}
                      => last.result["level"] = "error"
               /\ last.finding["severity"] \in {"Low", "INFO"}
                      => last.result["level"] = "note"
               /\ last.finding["severity"] \in {"severe", "error", "", "critical "}
                      => last.result["level"] = "warning"

\* an upper-case severity got the level of its lower-case form
C20_Witness ==
    /\ Converted
    /\ Has("severity")
    /\ last.finding["severity"] = "CRITICAL"
    /\ last.result["level"] = "error"


\* _extract_standard_ids has returned last.ids for last.standards_list
Extracted == last.what = "ids"

HasDigit(s) == \E k \in 1..Len(s) : SubSeq(s, k, k) \in Digits

\* entry i of the list is a string that contains a digit
HasId(i) ==
    /\ last.standards_list[i].type = "str"
    /\ HasDigit(last.standards_list[i].val)

\* the entry the k-th id comes from: the k-th entry that has an id
SourceOf(k) ==
    CHOOSE i \in 1..Len(last.standards_list) :
        HasId(i) /\ Cardinality({j \in 1..i : HasId(j)}) = k

\* d is the leftmost maximal run of digits of s
NumericIdOf(d, s) ==
    /\ d # ""
    /\ \A k \in 1..Len(d) : SubSeq(d, k, k) \in Digits
    /\ \E p \in 0..(Len(s) - Len(d)) :
           /\ ~HasDigit(SubSeq(s, 1, p))
           /\ SubSeq(s, p + 1, p + Len(d)) = d
           /\ \/ p + Len(d) = Len(s)
              \/ SubSeq(s, p + Len(d) + 1, p + Len(d) + 1) \notin Digits

\* C21: _extract_standard_ids returns, in input order, the numeric id of
\* each string entry whatever its prefix (['CWE-77', '89'] gives
\* ['77', '89']); entries that are not strings or hold no digit are skipped,
\* so the output is never longer than the input.
C21_ExtractStandardIds ==
    Extracted =>
        /\ Len(last.ids) = Cardinality({i \in 1..Len(last.standards_list) : HasId(i)})
        /\ \A k \in 1..Len(last.ids) :
               NumericIdOf(last.ids[k], last.standards_list[SourceOf(k)].val)
        /\ Len(last.ids) <= Len(last.standards_list)
        /\ last.standards_list = <<YamlStr("CWE-77"), YamlStr("89")>>
               => last.ids = <<"77", "89">>

\* a list with a prefixed id, an int and a word gave the one id of the string
C21_Witness ==
    /\ Extracted
    /\ last.standards_list = <<YamlStr("CWE-77"), [type |-> "int", val |-> "89"],
                               YamlStr("none")>>
    /\ last.ids = <<"77">>


\* generate_rule_from_risk has returned last.rule for last.risk
Generated == last.what = "generated"

\* C23 as stated: every rule generate_rule_from_risk produces has rule_type
\* 'hybrid', id 'tavoai-mit-risk-<risk id>', an ai_analysis section with a
\* prompt_template, sarif_output.rule_id equal to its id, and a heuristics
\* field holding a non-empty list of at most 5 heuristics, whatever the
\* domain and the risk description.
C23_GeneratedRuleShape ==
    Generated =>
        /\ last.rule["rule_type"] = "hybrid"
        /\ "id" \in DOMAIN last.risk
               => last.rule["id"] = "tavoai-mit-risk-" \o last.risk["id"]
        /\ "ai_analysis" \in DOMAIN last.rule
        /\ "prompt_template" \in DOMAIN last.rule["ai_analysis"]
        /\ last.rule["sarif_output"].rule_id = last.rule["id"]
        /\ "heuristics" \in DOMAIN last.rule
        /\ Len(last.rule["heuristics"]) \in 1..5


\* sync has returned; last.before is the output directory it started on
Synced == last.what = "synced"

\* the CSV was downloaded and its first row is R001, 'Security & Privacy'
FixtureRowDownloaded ==
    /\ Synced
    /\ ~last.use_mock
    /\ ~last.response.raised
    /\ last.response.status_code = 200
    /\ last.response.text.header = <<"ID", "Risk", "Domain", "Entity", "Intent", "Timing">>
    /\ last.response.text.rows # <<>>
    /\ last.response.text.rows[1][1] = "R001"
    /\ Len(last.response.text.rows[1]) >= 3
    /\ last.response.text.rows[1][3] = "Security & Privacy"

\* C22 as stated: sync converts a downloaded CSV row with ID 'R001' and
\* Domain 'Security & Privacy' into a rule whose id contains
\* 'tavoai-mit-risk-R001', with category 'security' and subcategory
\* 'security-privacy'.
C22_FixtureRowMapping ==
    FixtureRowDownloaded =>
        \E f \in DOMAIN last.output_dir.files :
            LET rule_data == last.output_dir.files[f].doc
            IN  /\ Contains(rule_data["id"], "tavoai-mit-risk-R001")
                /\ "category" \in DOMAIN rule_data
                /\ rule_data["category"] = "security"
                /\ rule_data["subcategory"] = "security-privacy"

\* the download failed: requests.get raised or the status is not 200
DownloadFailed ==
    /\ ~last.use_mock
    /\ last.response.raised \/ last.response.status_code # 200

\* C24: a failed CSV download (a status other than 200, or an exception in
\* the request) aborts the sync with no partial output: sync returns without
\* generating or writing any rule file and the output directory is as it was.
C24_FailedDownloadNoOutput ==
    (Synced /\ DownloadFailed) =>
        /\ last.output_dir = last.before
        /\ last.output_dir.written = <<>>

\* a 404 answer left the rule file of an earlier run as the only file
C24_Witness ==
    /\ Synced
    /\ DownloadFailed
    /\ last.response.status_code = 404
    /\ last.before.files # <<>>
    /\ DOMAIN last.output_dir.files = {"tavoai-mit-risk-R001.yaml"}


\* validate-quality-metrics has run and exited
QualityRan == last.what = "quality"

\* C25 as stated: --threshold is the overall quality threshold: the run is
\* reported passed (exit code 0) exactly when overall_score is at least the
\* given threshold, for every threshold in [0.0, 1.0].
C25_ThresholdDecidesExit ==
    QualityRan =>
        /\ last.exit_status = 0 <=> last.results.overall_score >= last.threshold
        /\ last.results.passed <=> last.results.overall_score >= last.threshold

\* C29: the false-positive and false-negative figures are the constants
\* 12/103 and 8/103, over their thresholds 0.10 and 0.05 in every run, so
\* both add 0 to the weighted score; the overall score is at most 0.60
\* whatever the repository holds, and validate_all_metrics never reports
\* passed = True.
C29_ScoreCappedBelowThreshold ==
    QualityRan =>
        LET metrics == last.results.metrics
        IN  /\ metrics.false_positive_rate.rate = [num |-> 12, den |-> 103]
            /\ metrics.false_negative_rate.rate = [num |-> 8, den |-> 103]
            /\ 12 * 100 > 10 * 103
            /\ 8 * 100 > 5 * 103
            /\ ~metrics.false_positive_rate.passed
            /\ ~metrics.false_negative_rate.passed
            /\ MetricScore("false_positive_rate", metrics.false_positive_rate) = 0
            /\ MetricScore("false_negative_rate", metrics.false_negative_rate) = 0
            /\ last.results.overall_score <= 6000
            /\ ~last.results.passed
            /\ last.exit_status = 1

\* a repository on which the four other metrics all pass scores 0.60
C29_Witness ==
    /\ QualityRan
    /\ last.results.metrics.heuristic_coverage.passed
    /\ last.results.metrics.schema_compliance.passed
    /\ last.results.metrics.test_coverage.passed
    /\ last.results.overall_score = 6000
    /\ ~last.results.passed


\* generate_sarif has returned last.sarif for last.results
SarifGenerated == last.what = "sarif"

TheFindings == Get(last.results, "findings", <<>>)
TheRules == last.sarif.runs[1].tool.driver.rules
TheResults == last.sarif.runs[1].results

RuleIdOf(finding) == Get(finding, "rule_id", "unknown")

\* finding i is the first of its rule_id
FirstOfRule(i) == \A j \in 1..(i - 1) : RuleIdOf(TheFindings[j]) # RuleIdOf(TheFindings[i])

\* the finding the k-th rule definition comes from: the k-th first occurrence
FirstOccurrence(k) ==
    CHOOSE i \in 1..Len(TheFindings) :
        FirstOfRule(i) /\ Cardinality({j \in 1..i : FirstOfRule(j)}) = k

\* C26: for any sequence of findings generate_sarif emits one result per
\* finding, in input order, and one rule definition per distinct rule_id, in
\* order of first occurrence and built from the first finding of that
\* rule_id; every result r has driver.rules[r.ruleIndex].id = r.ruleId.
C26_RuleIndexConsistency ==
    SarifGenerated =>
        /\ Len(TheResults) = Len(TheFindings)
        /\ \A i \in 1..Len(TheFindings) :
               /\ TheResults[i]["ruleId"] = RuleIdOf(TheFindings[i])
               /\ TheResults[i]["level"]
                      = map_severity_to_level(Get(TheFindings[i], "severity", "medium"))
        /\ Len(TheRules) = Cardinality({RuleIdOf(TheFindings[i]) : i \in 1..Len(TheFindings)})
        /\ \A k \in 1..Len(TheRules) :
               TheRules[k] = create_rule_definition(TheFindings[FirstOccurrence(k)])
        /\ \A i \in 1..Len(TheResults) :
               /\ TheResults[i]["ruleIndex"] \in 0..(Len(TheRules) - 1)
               /\ TheRules[TheResults[i]["ruleIndex"] + 1]["id"] = TheResults[i]["ruleId"]

\* three findings of two rules: the third result points back at rule 0,
\* which was built from the first finding
C26_Witness ==
    /\ SarifGenerated
    /\ Len(TheFindings) = 3
    /\ RuleIdOf(TheFindings[1]) = "tavoai-sqli"
    /\ RuleIdOf(TheFindings[2]) = "tavoai-xss"
    /\ RuleIdOf(TheFindings[3]) = "tavoai-sqli"
    /\ TheFindings[3] # TheFindings[1]
    /\ Len(TheRules) = 2
    /\ TheResults[3]["ruleIndex"] = 0
    /\ TheResults[2]["ruleIndex"] = 1


\* the names of the rule files rules/ holds: entries ending in .yaml or .yml
DiscoveredNames ==
    IF bundle.rules # "dir" THEN {}
    ELSE {bundle.files[i].name : i \in {j \in 1..Len(bundle.files) :
                                          Suffix(bundle.files[j].name) \in {".yaml", ".yml"}}}

\* C27: in every manifest create_bundle_manifest produces for a bundle with
\* rules/, artifacts holds exactly one 'rules/<filename>' entry per rule file
\* found (.yaml or .yml), none twice, and as many entries as
\* metadata.rule_count says, also when rule files fail to parse or carry a
\* malformed category or standards value.
C27_ArtifactsMatchRuleCount ==
    \A i \in 1..Len(produced) :
        (produced[i].raised = "none" /\ bundle.rules # "absent") =>
            LET artifacts == produced[i].manifest.artifacts
            IN  /\ Elements(artifacts) = {"rules/" \o n : n \in DiscoveredNames}
                /\ \A a, b \in 1..Len(artifacts) : a # b => artifacts[a] # artifacts[b]
                /\ Len(artifacts) = Cardinality(DiscoveredNames)
                /\ Len(artifacts) = produced[i].manifest.metadata.rule_count

\* a manifest for a file that does not parse, a rule with a list category
\* and a file that is no rule: two artifacts, rule_count 2
C27_Witness ==
    /\ Produced
    /\ DiscoveredNames = {"broken_rule.yaml", "multi.yaml"}
    /\ Len(Latest.manifest.artifacts) = 2
    /\ Latest.manifest.metadata.rule_count = 2


\* both tools have run on the bundle directory
Covered == last.what = "all_rules"

\* C28 as stated: every rule document the manifest generator lists as a
\* bundle artifact (.yaml or .yml under rules/) is also visited by
\* validate_all_rules.
C28_ArtifactsAreValidated ==
    Covered =>
        \A a \in Elements(produced[1].manifest.artifacts) :
            a \in Elements(last.result.visited)


\* run_all_tests has returned last.results
TestsRan == last.what = "tests"

TheSummary == last.results.summary

\* what test_schema_validation reported
SchemaValidationPassed ==
    last.results.rule_validation_tests["schema_validation"]["validation_passed"]

\* unit tests and samples counted, before the schema-validation test
CountedBefore ==
    [passed |-> last.results.unit_tests.passed
                + SumOver(Languages, [lang \in Languages |->
                      last.repo_state.vulnerable[lang] + last.repo_state.safe[lang]]),
     failed |-> last.results.unit_tests.failed]

\* C30 as stated: calculate_summary counts the schema-validation test as
\* passed exactly when test_schema_validation reported validation_passed =
\* True (the validator exited 0) and as failed otherwise, and the summary
\* always has total_tests_run = tests_passed + tests_failed.
C30_SchemaValidationCounted ==
    TestsRan =>
        /\ SchemaValidationPassed
               <=> (~last.repo_state.validator.raised
                    /\ last.repo_state.validator.returncode = 0)
        /\ SchemaValidationPassed
               => /\ TheSummary.tests_passed = CountedBefore.passed + 1
                  /\ TheSummary.tests_failed = CountedBefore.failed
        /\ ~SchemaValidationPassed
               => /\ TheSummary.tests_passed = CountedBefore.passed
                  /\ TheSummary.tests_failed = CountedBefore.failed + 1
        /\ TheSummary.total_tests_run = TheSummary.tests_passed + TheSummary.tests_failed

====
